---- MODULE Spec2Model ----
(***************************************************************************)
(* compose-agentsmd: composition of AGENTS.md from rule fragments.         *)
(*                                                                         *)
(* The model follows the TypeScript CLI (composeRuleset and the functions  *)
(* it calls).  A path is a sequence of segments; an absolute path starts   *)
(* with the segment "/".  A file's text is a sequence of tokens, a token   *)
(* is a sequence of strings (<<"NL">> is a line break, <<"SP">> a blank).  *)
(***************************************************************************)
EXTENDS Integers, Sequences, FiniteSets, TLC

VARIABLES
  files,      \* [path -> text] of the regular files that exist
  dirs,       \* set of the directories that exist
  rulesetFile, \* the ruleset file of the project root, as parsed JSON
  cacheDirs,  \* [segment -> cache entry]: the directories under the cache root
  remote,     \* the GitHub remote: tag listing, branches, HEAD, served commits
  workspace,  \* the clone of the rules repository under the workspace root
  procs,      \* two invocations that run at the same time, step by step
  pre,        \* files and dirs as they were before the last invocation
  last,       \* what the last invocation was and what it reported
  first,      \* the first real compose of the current ruleset: what it read and wrote
  runs        \* number of invocations made so far

vars == <<files, dirs, rulesetFile, cacheDirs, remote, workspace, procs, pre, last, first, runs>>

(***************************************************************************)
(* Bounds of the model.                                                    *)
(***************************************************************************)
MaxRuns == 2
MaxTags == 3

(***************************************************************************)
(* Sequences.                                                              *)
(***************************************************************************)
Range(s) == { s[i] : i \in 1..Len(s) }

Last(s) == s[Len(s)]

Front(s) == SubSeq(s, 1, Len(s) - 1)

RECURSIVE Flatten(_)
Flatten(ss) == IF ss = <<>> THEN <<>> ELSE Head(ss) \o Flatten(Tail(ss))

IsPrefix(p, s) == Len(p) <= Len(s) /\ SubSeq(s, 1, Len(p)) = p

\* F of the value of v, with v evaluated once
With(v, F(_)) == CHOOSE r \in { F(x) : x \in {v} } : TRUE

(***************************************************************************)
(* node:path on POSIX.                                                     *)
(***************************************************************************)
isAbsolute(p) == Len(p) > 0 /\ p[1] = "/"

RECURSIVE normalizeFrom(_, _)
normalizeFrom(acc, rest) ==
  IF rest = <<>> THEN acc
  ELSE LET s == Head(rest) IN
       IF s = "." \/ s = "/" THEN normalizeFrom(acc, Tail(rest))
       ELSE IF s = ".."
            THEN normalizeFrom(IF Len(acc) > 1 THEN Front(acc) ELSE acc, Tail(rest))
            ELSE normalizeFrom(Append(acc, s), Tail(rest))

\* path.resolve(base, target) with an absolute base
pathResolve(base, target) ==
  With(IF isAbsolute(target) THEN target ELSE base \o target,
       LAMBDA joined : normalizeFrom(<<"/">>, joined))

pathJoin(base, name) == With(base \o <<name>>, LAMBDA joined : normalizeFrom(<<"/">>, joined))

dirname(p) == IF Len(p) > 1 THEN Front(p) ELSE p

basename(p) == IF Len(p) > 1 THEN Last(p) ELSE ""

RECURSIVE commonLen(_, _)
commonLen(a, b) ==
  IF a = <<>> \/ b = <<>> \/ Head(a) # Head(b) THEN 0
  ELSE 1 + commonLen(Tail(a), Tail(b))

\* path.relative(from, to) of two absolute normalized paths
pathRelative(from, to) ==
  With(commonLen(from, to),
       LAMBDA n : [i \in 1..(Len(from) - n) |-> ".."] \o SubSeq(to, n + 1, Len(to)))

\* resolveFrom(baseDir, targetPath)
resolveFrom(baseDir, targetPath) ==
  IF isAbsolute(targetPath) THEN targetPath ELSE pathResolve(baseDir, targetPath)

(***************************************************************************)
(* The file system.  A state st is [files |-> ..., dirs |-> ...].          *)
(* SymLinks are symbolic links of the project; they are never rewritten.   *)
(***************************************************************************)
ProjectRoot == <<"/", "p">>
DEFAULT_RULESET_NAME == "agent-ruleset.json"
RulesetPath == <<"/", "p", "agent-ruleset.json">>
NestedRulesetPath == <<"/", "p", "nested", "agent-ruleset.json">>
GlobalA     == <<"/", "p", "rs", "rules", "global", "a.md">>
LinkPath    == <<"/", "p", "link.md">>

SymLinks == (LinkPath :> GlobalA)

realPath(p) == IF p \in DOMAIN SymLinks THEN SymLinks[p] ELSE p

isFile(st, p) == realPath(p) \in DOMAIN st.files

isDirectory(st, p) == realPath(p) \in st.dirs

existsSync(st, p) == isFile(st, p) \/ isDirectory(st, p)

readFileSync(st, p) == st.files[realPath(p)]

RECURSIVE ancestors(_)
ancestors(d) == IF Len(d) <= 1 THEN {d} ELSE {d} \cup ancestors(Front(d))

\* fs.mkdirSync(dir, {recursive: true})
ensureDir(st, d) == [st EXCEPT !.dirs = @ \cup ancestors(d)]

\* a write that appends to the file instead of replacing it
writeFileAppending(st, p, text) ==
  LET q == realPath(p)
      withDir == ensureDir(st, dirname(q))
  IN [withDir EXCEPT !.files =
        [f \in (DOMAIN @) \cup {q} |->
           IF f # q THEN @[f] ELSE IF q \in DOMAIN @ THEN @[q] \o text ELSE text]]

\* fs.mkdirSync(dirname(p), {recursive: true}); fs.writeFileSync(p, text)
writeFile(st, p, text) ==
  With(realPath(p),
       LAMBDA q :
         With(ensureDir(st, dirname(q)),
              LAMBDA withDir :
                [withDir EXCEPT !.files =
                   [f \in (DOMAIN @) \cup {q} |-> IF f = q THEN text ELSE @[f]]]))

(***************************************************************************)
(* File names as UTF-16 code units: what extname, toLowerCase and          *)
(* localeCompare work on.                                                  *)
(***************************************************************************)
NameUnits ==
  ("a.md"  :> <<97, 46, 109, 100>>) @@
  ("B.md"  :> <<66, 46, 109, 100>>) @@
  ("c.MD"  :> <<99, 46, 77, 68>>) @@
  ("n.txt" :> <<110, 46, 116, 120, 116>>) @@
  ("t.md"  :> <<116, 46, 109, 100>>) @@
  ("z.md"  :> <<122, 46, 109, 100>>) @@
  ("sub"   :> <<115, 117, 98>>)

Slash == 47
Dot   == 46

codeUnits(name) == NameUnits[name]

\* the code units of a relative path written with "/" (normalizePath)
RECURSIVE pathUnits(_)
pathUnits(rel) ==
  IF rel = <<>> THEN <<>>
  ELSE IF Len(rel) = 1 THEN codeUnits(rel[1])
  ELSE codeUnits(rel[1]) \o <<Slash>> \o pathUnits(Tail(rel))

toLowerCase(u) == [i \in 1..Len(u) |-> IF u[i] \in 65..90 THEN u[i] + 32 ELSE u[i]]

\* path.extname(name): from the last "." on, "" when there is none or it leads
extname(u) ==
  LET dots == { i \in 1..Len(u) : u[i] = Dot } IN
  IF dots = {} THEN <<>>
  ELSE LET k == CHOOSE i \in dots : \A j \in dots : j <= i IN
       IF k = 1 THEN <<>> ELSE SubSeq(u, k, Len(u))

MdExt == <<46, 109, 100>>

\* lexicographic comparison of two sequences of numbers: -1, 0 or 1
RECURSIVE lexCompare(_, _)
lexCompare(a, b) ==
  IF a = <<>> /\ b = <<>> THEN 0
  ELSE IF a = <<>> THEN -1
  ELSE IF b = <<>> THEN 1
  ELSE IF Head(a) < Head(b) THEN -1
  ELSE IF Head(a) > Head(b) THEN 1
  ELSE lexCompare(Tail(a), Tail(b))

\* collation weights of String.prototype.localeCompare (root collation) for
\* letters, "." and "/": letters follow punctuation and differ in case only
\* at the third level, lower case first
primaryWeight(c) ==
  IF c \in 65..90 THEN 200 + (c - 65)
  ELSE IF c \in 97..122 THEN 200 + (c - 97)
  ELSE c

tertiaryWeight(c) == IF c \in 65..90 THEN 1 ELSE 0

primaryWeights(u) == With(u, LAMBDA v : [i \in 1..Len(v) |-> primaryWeight(v[i])])

tertiaryWeights(u) == With(u, LAMBDA v : [i \in 1..Len(v) |-> tertiaryWeight(v[i])])

localeCompare(a, b) ==
  With(With(primaryWeights(a),
            LAMBDA wa : With(primaryWeights(b), LAMBDA wb : lexCompare(wa, wb))),
       LAMBDA p :
         IF p # 0 THEN p
         ELSE With(tertiaryWeights(a),
                   LAMBDA wa : With(tertiaryWeights(b), LAMBDA wb : lexCompare(wa, wb))))

(***************************************************************************)
(* fs.readdirSync: the entries of a directory, in an order the file system *)
(* chooses.  ord selects the permutation of the entries.                   *)
(***************************************************************************)
MaxOrder == 2

entriesOf(st, d) ==
  { p \in (DOMAIN st.files) \cup st.dirs \cup (DOMAIN SymLinks) :
      Len(p) = Len(d) + 1 /\ IsPrefix(d, p) }

\* the least of a set of paths by the code units of the last segment
leastByName(S) ==
  CHOOSE x \in S : \A y \in S : lexCompare(codeUnits(Last(x)), codeUnits(Last(y))) <= 0

RECURSIVE byName(_)
byName(S) ==
  IF S = {} THEN <<>>
  ELSE With(leastByName(S), LAMBDA m : With(S \ {m}, LAMBDA rest : <<m>> \o byName(rest)))

RECURSIVE nthPermutation(_, _)
nthPermutation(s, k) ==
  IF s = <<>> THEN <<>>
  ELSE With((k % Len(s)) + 1,
            LAMBDA i :
              With(SubSeq(s, 1, i - 1) \o SubSeq(s, i + 1, Len(s)),
                   LAMBDA rest : <<s[i]>> \o nthPermutation(rest, k \div Len(s))))

readdirSync(st, d, ord) ==
  With(entriesOf(st, d),
       LAMBDA S : With(byName(S), LAMBDA sorted : nthPermutation(sorted, ord)))

(***************************************************************************)
(* collectMarkdownFiles                                                    *)
(***************************************************************************)
\* the for-loop over the entries of one directory
RECURSIVE scanEntries(_, _, _, _)
scanEntries(st, entries, pending, results) ==
  IF entries = <<>> THEN [pending |-> pending, results |-> results]
  ELSE LET e == Head(entries) IN
       IF e \in st.dirs
       THEN scanEntries(st, Tail(entries), Append(pending, e), results)
       ELSE IF e \in DOMAIN st.files
               /\ toLowerCase(extname(codeUnits(Last(e)))) = MdExt
            THEN scanEntries(st, Tail(entries), pending, Append(results, e))
            ELSE scanEntries(st, Tail(entries), pending, results)

\* the while-loop over the pending stack
RECURSIVE walk(_, _, _, _)
walk(st, pending, results, ord) ==
  IF pending = <<>> THEN results
  ELSE With(readdirSync(st, Last(pending), ord),
            LAMBDA entries :
              With(scanEntries(st, entries, Front(pending), results),
                   LAMBDA r : walk(st, r.pending, r.results, ord)))

relCompare(rootDir, a, b) ==
  With(pathUnits(pathRelative(rootDir, a)),
       LAMBDA relA :
         With(pathUnits(pathRelative(rootDir, b)), LAMBDA relB : localeCompare(relA, relB)))

\* Array.prototype.sort is stable: an element goes behind those it does not precede
RECURSIVE insertSorted(_, _, _)
insertSorted(rootDir, sorted, x) ==
  IF sorted = <<>> THEN <<x>>
  ELSE IF relCompare(rootDir, x, Last(sorted)) >= 0 THEN Append(sorted, x)
  ELSE Append(insertSorted(rootDir, Front(sorted), x), Last(sorted))

RECURSIVE sortByRelativePath(_, _, _)
sortByRelativePath(rootDir, sorted, rest) ==
  IF rest = <<>> THEN sorted
  ELSE With(insertSorted(rootDir, sorted, Head(rest)),
            LAMBDA next : sortByRelativePath(rootDir, next, Tail(rest)))

\* collectMarkdownFiles without its sort: the files in the order they were found
sortResultsUnsorted(rootDir, results) == results

\* results.sort(...) of collectMarkdownFiles
sortResults(rootDir, results) == sortByRelativePath(rootDir, <<>>, results)

\* ensureDirectoryExists: "" when the directory is there
ensureDirectoryExists(st, d) ==
  IF ~existsSync(st, d) THEN "Missing directory"
  ELSE IF ~isDirectory(st, d) THEN "Not a directory"
  ELSE ""

\* [err, list]: the sorted markdown files under rootDir
collectMarkdownFiles(st, rootDir, ord) ==
  With(ensureDirectoryExists(st, rootDir),
       LAMBDA e :
         IF e # "" THEN [err |-> e, list |-> <<>>]
         ELSE With(walk(st, <<rootDir>>, <<>>, ord),
                   LAMBDA results : [err |-> "", list |-> sortResults(rootDir, results)]))

(***************************************************************************)
(* Text.                                                                   *)
(***************************************************************************)
NL == <<"NL">>
SP == <<"SP">>

isWhitespace(tok) == tok = NL \/ tok = SP

\* content.replace(/\s+$/u, "")
RECURSIVE normalizeTrailingWhitespace(_)
normalizeTrailingWhitespace(text) ==
  IF text = <<>> THEN <<>>
  ELSE IF isWhitespace(Last(text)) THEN normalizeTrailingWhitespace(Front(text))
  ELSE text

LintHeader == <<"<!-- markdownlint-disable MD025 -->">>

\* the contents of tools/tool-rules.md
ToolRulesFile == << <<"# Tool Rules (compose-agentsmd)">>, NL, <<"- rules">>, NL >>

TOOL_RULES == normalizeTrailingWhitespace(ToolRulesFile)

DEFAULT_OUTPUT == <<"AGENTS.md">>

DEFAULT_CLAUDE_OUTPUT == <<"CLAUDE.md">>

(***************************************************************************)
(* The ruleset file.  st.ruleset is what JSON.parse gives for it:          *)
(* [exists, has, source, global, domains, extra, output, claude], where    *)
(* has is the set of the optional keys that are present.  A source is      *)
(* [kind, path, ref]: a local path, or github:o/r@ref.                     *)
(***************************************************************************)
NoRuleset ==
  [exists |-> FALSE, has |-> {}, source |-> [kind |-> "empty", path |-> <<>>, ref |-> <<>>],
   global |-> TRUE, domains |-> <<>>, extra |-> <<>>, output |-> <<>>,
   claude |-> [enabled |-> TRUE, output |-> <<>>]]

\* the pointers of the empty items of a list: /domains/0, /domains/1, ...
emptyItems(name, list) ==
  Flatten([i \in 1..Len(list) |-> IF list[i] = <<>> THEN << <<name, i - 1>> >> ELSE <<>>])

\* the violations the schema validator reports (allErrors: true), as the
\* instance paths of its errors
validateRulesetSchema(rs) ==
  (IF rs.source.kind = "empty" THEN << <<"/source">> >> ELSE <<>>)
  \o (IF "output" \in rs.has /\ rs.output = <<>> THEN << <<"/output">> >> ELSE <<>>)
  \o emptyItems("/domains", rs.domains)
  \o emptyItems("/extra", rs.extra)
  \o (IF "claude" \in rs.has /\ rs.claude.output = <<>> THEN << <<"/claude/output">> >> ELSE <<>>)

\* error.message of a string shorter than minLength
TooShort == "must NOT have fewer than 1 characters"

RECURSIVE joinErrors(_)
joinErrors(labelled) ==
  IF labelled = <<>> THEN <<>>
  ELSE IF Len(labelled) = 1 THEN <<Head(labelled)>>
  ELSE <<Head(labelled), <<";">> >> \o joinErrors(Tail(labelled))

\* a message made of the first error alone
formatFirstSchemaError(errors) ==
  IF errors = <<>> THEN << <<"Unknown schema validation error">> >>
  ELSE << <<errors[1], TooShort>> >>

\* formatSchemaErrors: `${pathLabel} ${error.message}` of every error, joined by "; "
formatSchemaErrors(errors) ==
  IF errors = <<>> THEN << <<"Unknown schema validation error">> >>
  ELSE joinErrors([i \in 1..Len(errors) |-> <<errors[i], TooShort>>])

\* readJsonFile of a ruleset file: the one of the root directory or the nested one
readJsonFile(st, filePath) ==
  IF filePath = RulesetPath THEN st.ruleset
  ELSE IF filePath = NestedRulesetPath THEN st.nested
  ELSE NoRuleset

\* [err, errors, message, ruleset]: the validated ruleset with its defaults filled in
readProjectRuleset(st, rulesetPath) ==
  LET rs == readJsonFile(st, rulesetPath)
      errors == validateRulesetSchema(rs)
  IN IF ~rs.exists
     THEN [err |-> "Missing ruleset file", errors |-> <<>>, message |-> <<>>, ruleset |-> rs]
     ELSE IF errors # <<>>
          THEN [err |-> "Invalid ruleset schema", errors |-> errors,
                message |-> formatSchemaErrors(errors), ruleset |-> rs]
          ELSE [err |-> "", errors |-> <<>>, message |-> <<>>,
                ruleset |-> [rs EXCEPT
                  !.output = IF "output" \in rs.has THEN @ ELSE DEFAULT_OUTPUT,
                  !.global = IF "global" \in rs.has THEN @ ELSE TRUE,
                  !.claude = IF "claude" \in rs.has THEN @
                             ELSE [enabled |-> TRUE, output |-> DEFAULT_CLAUDE_OUTPUT]]]

(***************************************************************************)
(* resolveLocalRulesRoot                                                   *)
(***************************************************************************)
\* a rules root that is always the directory rules under the source path
resolveLocalRulesRootAppend(st, rulesetDir, source) ==
  With(resolveFrom(rulesetDir, source.path),
       LAMBDA resolvedSource :
         With(pathJoin(resolvedSource, "rules"),
              LAMBDA candidate :
                IF ~existsSync(st, resolvedSource)
                THEN [err |-> "Missing source path", rulesRoot |-> candidate]
                ELSE [err |-> ensureDirectoryExists(st, candidate), rulesRoot |-> candidate]))

resolveLocalRulesRoot(st, rulesetDir, source) ==
  With(resolveFrom(rulesetDir, source.path),
       LAMBDA resolvedSource :
         With(IF basename(resolvedSource) = "rules" THEN resolvedSource
              ELSE pathJoin(resolvedSource, "rules"),
              LAMBDA candidate :
                IF ~existsSync(st, resolvedSource)
                THEN [err |-> "Missing source path", rulesRoot |-> candidate]
                ELSE [err |-> ensureDirectoryExists(st, candidate), rulesRoot |-> candidate]))

(***************************************************************************)
(* addRulePaths: acc is [err, rules, seen]; a throw leaves err set and     *)
(* ends the loop.                                                          *)
(***************************************************************************)
NoRules == [err |-> "", rules |-> <<>>, seen |-> {}]

RECURSIVE addRulePaths(_, _, _)
addRulePaths(st, rulePaths, acc) ==
  IF rulePaths = <<>> \/ acc.err # "" THEN acc
  ELSE With(pathResolve(<<"/">>, Head(rulePaths)),
            LAMBDA resolvedRulePath :
              IF resolvedRulePath \in acc.seen THEN addRulePaths(st, Tail(rulePaths), acc)
              ELSE IF ~existsSync(st, resolvedRulePath)
                   THEN [acc EXCEPT !.err = "Missing file"]
                   ELSE With([acc EXCEPT !.rules = Append(@, resolvedRulePath),
                                         !.seen = @ \cup {resolvedRulePath}],
                             LAMBDA added : addRulePaths(st, Tail(rulePaths), added)))

\* addRulePaths(collectMarkdownFiles(root), resolvedRules, seenRules)
addCollected(st, rootDir, ord, acc) ==
  IF acc.err # "" THEN acc
  ELSE With(collectMarkdownFiles(st, rootDir, ord),
            LAMBDA c : IF c.err # "" THEN [acc EXCEPT !.err = c.err]
                       ELSE addRulePaths(st, c.list, acc))

\* for (const domain of domains) { ... }
RECURSIVE addDomains(_, _, _, _, _)
addDomains(st, domainsRoot, domains, ord, acc) ==
  IF domains = <<>> \/ acc.err # "" THEN acc
  ELSE With(pathResolve(domainsRoot, Head(domains)),
            LAMBDA domainRoot :
              With(addCollected(st, domainRoot, ord, acc),
                   LAMBDA added : addDomains(st, domainsRoot, Tail(domains), ord, added)))

(***************************************************************************)
(* Strings of the git side (refs, tags, hashes) are sequences of           *)
(* one-character strings.                                                  *)
(***************************************************************************)
Digits == {"0", "1", "2", "3", "4", "5", "6", "7", "8", "9"}

HexChars == Digits \cup {"a", "b", "c", "d", "e", "f", "A", "B", "C", "D", "E", "F"}

digitValue(c) ==
  CASE c = "0" -> 0 [] c = "1" -> 1 [] c = "2" -> 2 [] c = "3" -> 3 [] c = "4" -> 4
    [] c = "5" -> 5 [] c = "6" -> 6 [] c = "7" -> 7 [] c = "8" -> 8 [] c = "9" -> 9

\* value.replace(/[\\/]/gu, "__")
sanitizeCacheSegment(value) ==
  Flatten([i \in 1..Len(value) |->
    IF value[i] = "/" \/ value[i] = "\\" THEN <<"_", "_">> ELSE <<value[i]>>])

\* /^[a-f0-9]{7,40}$/iu.test(value)
looksLikeCommitHash(value) ==
  Len(value) >= 7 /\ Len(value) <= 40 /\ \A i \in 1..Len(value) : value[i] \in HexChars

\* String.prototype.split(sep) for a one-character separator
RECURSIVE splitFrom(_, _, _)
splitFrom(s, sep, cur) ==
  IF s = <<>> THEN <<cur>>
  ELSE IF Head(s) = sep THEN <<cur>> \o splitFrom(Tail(s), sep, <<>>)
  ELSE splitFrom(Tail(s), sep, Append(cur, Head(s)))

split(s, sep) == splitFrom(s, sep, <<>>)

RECURSIVE decimalValue(_, _)
decimalValue(ds, acc) ==
  IF ds = <<>> THEN acc ELSE decimalValue(Tail(ds), 10 * acc + digitValue(Head(ds)))

NaN == [nan |-> TRUE, n |-> 0]

\* Number(part) for strings of digits, letters, "-" and "+": the empty string
\* is 0, an optionally signed run of digits is its value, the rest is NaN
Number(part) ==
  LET signed == part # <<>> /\ (Head(part) = "-" \/ Head(part) = "+")
      ds == IF signed THEN Tail(part) ELSE part
  IN IF part = <<>> THEN [nan |-> FALSE, n |-> 0]
     ELSE IF ds # <<>> /\ \A i \in 1..Len(ds) : ds[i] \in Digits
          THEN [nan |-> FALSE,
                n |-> IF signed /\ Head(part) = "-" THEN 0 - decimalValue(ds, 0)
                      ELSE decimalValue(ds, 0)]
          ELSE NaN

\* parseSemver: [ok, numbers]; ok = FALSE stands for null
parseSemver(tag) ==
  With(split(IF tag # <<>> /\ Head(tag) = "v" THEN Tail(tag) ELSE tag, "."),
       LAMBDA parts :
         IF Len(parts) < 2 \/ Len(parts) > 3 THEN [ok |-> FALSE, numbers |-> <<>>]
         ELSE With([i \in 1..Len(parts) |-> Number(parts[i])],
                   LAMBDA numbers :
                     IF \E i \in 1..Len(numbers) : numbers[i].nan
                     THEN [ok |-> FALSE, numbers |-> <<>>]
                     ELSE [ok |-> TRUE, numbers |-> [i \in 1..Len(numbers) |-> numbers[i].n]]))

RECURSIVE compareFrom(_, _, _, _)
compareFrom(a, b, i, maxLength) ==
  IF i > maxLength THEN 0
  ELSE LET left == IF i <= Len(a) THEN a[i] ELSE 0
           right == IF i <= Len(b) THEN b[i] ELSE 0
       IN IF left # right THEN left - right ELSE compareFrom(a, b, i + 1, maxLength)

\* a comparison with its operands exchanged: the sort descends
compareSemverDescending(a, b) ==
  compareFrom(b, a, 1, IF Len(a) >= Len(b) THEN Len(a) ELSE Len(b))

compareSemver(a, b) ==
  compareFrom(a, b, 1, IF Len(a) >= Len(b) THEN Len(a) ELSE Len(b))

\* candidates.sort((a, b) => compareSemver(a.semver, b.semver)): stable
RECURSIVE insertCandidate(_, _)
insertCandidate(sorted, x) ==
  IF sorted = <<>> THEN <<x>>
  ELSE IF compareSemver(x.semver, Last(sorted).semver) >= 0 THEN Append(sorted, x)
  ELSE Append(insertCandidate(Front(sorted), x), Last(sorted))

RECURSIVE sortCandidates(_, _)
sortCandidates(sorted, rest) ==
  IF rest = <<>> THEN sorted
  ELSE With(insertCandidate(sorted, Head(rest)),
            LAMBDA next : sortCandidates(next, Tail(rest)))

\* the lines of `git ls-remote --tags --refs` that parse as versions
candidatesOf(listing) ==
  With([i \in 1..Len(listing) |->
          [hash |-> listing[i].hash, tag |-> listing[i].tag,
           sv |-> parseSemver(listing[i].tag)]],
       LAMBDA parsed :
         With(SelectSeq(parsed, LAMBDA c : c.sv.ok),
              LAMBDA kept :
                [i \in 1..Len(kept) |->
                   [hash |-> kept[i].hash, tag |-> kept[i].tag, semver |-> kept[i].sv.numbers]]))

\* resolveLatestTag: [found, tag, hash]; found = FALSE stands for {}
resolveLatestTag(listing) ==
  With(With(candidatesOf(listing), LAMBDA parsed : sortCandidates(<<>>, parsed)),
       LAMBDA candidates :
         IF candidates = <<>> THEN [found |-> FALSE, tag |-> <<>>, hash |-> <<>>]
         ELSE [found |-> TRUE, tag |-> Last(candidates).tag, hash |-> Last(candidates).hash])

(***************************************************************************)
(* The remote and the cache.  remote is [tags, branches, head, commits]:   *)
(* tags is the listing of `git ls-remote --tags --refs` (records           *)
(* [hash, tag], in the order listed), branches a sequence of [name, hash], *)
(* commits the hashes the remote serves.  st.cache maps a cache segment to *)
(* [complete, commit, by]: the directory <cacheRoot>/o/r/<segment>.        *)
(* fail names the git command that fails in this run for a reason outside  *)
(* the program ("none": no such failure).                                  *)
(***************************************************************************)
Latest  == <<"l", "a", "t", "e", "s", "t">>

Main == <<"m", "a", "i", "n">>
HeadRef == <<"H", "E", "A", "D">>

GitCommands == {"ls-remote", "clone", "init", "remote add", "fetch", "checkout"}

\* the repository the rulesets of most runs name, github:o/r
DefaultRepo == << <<"o">>, <<"r">> >>

\* parseGithubSource: source.path is repoPart.split("/"), the empty path
\* standing for o/r; the ref is "latest" when the source names none
parseGithubSource(source) ==
  With(IF source.path = <<>> THEN DefaultRepo ELSE source.path,
       LAMBDA repoPart :
         [owner |-> repoPart[1], repo |-> repoPart[2],
          ref |-> IF source.ref = <<>> THEN Latest ELSE source.ref])

\* path.join(os.homedir(), ".agentsmd", "cache"), as a list of names
DEFAULT_CACHE_ROOT == << <<"home">>, <<".agentsmd">>, <<"cache">> >>

\* path.join on names spelled character by character: "." is dropped and
\* ".." leaves the directory reached so far
RECURSIVE joinNames(_, _)
joinNames(acc, names) ==
  IF names = <<>> THEN acc
  ELSE IF Head(names) = <<".">> THEN joinNames(acc, Tail(names))
  ELSE IF Head(names) = <<".", ".">>
       THEN joinNames(IF acc = <<>> THEN acc ELSE Front(acc), Tail(names))
       ELSE joinNames(Append(acc, Head(names)), Tail(names))

\* cacheDir of resolveGithubRulesRoot
cacheDirOf(parsed, segment) ==
  joinNames(DEFAULT_CACHE_ROOT, <<parsed.owner, parsed.repo, segment>>)

hashOfBranch(rem, name) ==
  With(SelectSeq(rem.branches, LAMBDA b : b.name = name),
       LAMBDA hit : IF hit = <<>> THEN <<>> ELSE hit[1].hash)

hashOfTag(rem, name) ==
  With(SelectSeq(rem.tags, LAMBDA t : t.tag = name),
       LAMBDA hit : IF hit = <<>> THEN <<>> ELSE hit[1].hash)

\* resolveHeadHash
resolveHeadHash(rem) == rem.head

\* resolveRefHash: <<>> stands for null
resolveRefHash(rem, ref) ==
  With(hashOfBranch(rem, ref), LAMBDA branch : IF branch # <<>> THEN branch ELSE hashOfTag(rem, ref))

\* cloneAtRef: git clone --depth 1 --branch ref; [ok, cache]
cloneAtRef(cache, rem, ref, seg, fail, run) ==
  With(resolveRefHash(rem, ref),
       LAMBDA commit :
         IF fail = "clone" \/ commit = <<>> THEN [ok |-> FALSE, cache |-> cache]
         ELSE [ok |-> TRUE,
               cache |-> [s \in (DOMAIN cache) \cup {seg} |->
                            IF s = seg THEN [complete |-> TRUE, commit |-> commit, by |-> run]
                            ELSE cache[s]]])

\* fetchCommit: ensureDir, git init, remote add, fetch --depth 1, checkout; [err, cache, git]
fetchCommit(cache, rem, commitHash, seg, fail, run) ==
  With([s \in (DOMAIN cache) \cup {seg} |->
          IF s = seg THEN [complete |-> FALSE, commit |-> <<>>, by |-> run]
          ELSE cache[s]],
       LAMBDA made :
         IF fail = "init" THEN [err |-> "git init failed", cache |-> made, git |-> <<"init">>]
         ELSE IF fail = "remote add"
              THEN [err |-> "git remote add failed", cache |-> made,
                    git |-> <<"init", "remote add">>]
         ELSE IF fail = "fetch" \/ commitHash \notin rem.commits
              THEN [err |-> "git fetch failed", cache |-> made,
                    git |-> <<"init", "remote add", "fetch">>]
         ELSE IF fail = "checkout"
              THEN [err |-> "git checkout failed", cache |-> made,
                    git |-> <<"init", "remote add", "fetch", "checkout">>]
         ELSE [err |-> "",
               cache |-> [made EXCEPT ![seg] =
                            [complete |-> TRUE, commit |-> commitHash, by |-> run]],
               git |-> <<"init", "remote add", "fetch", "checkout">>])

\* a cache segment that names the ref even when the ref is HEAD
cacheSegmentByRef(resolvedRef, resolvedHash) == sanitizeCacheSegment(resolvedRef)

\* the cache segment of a resolved ref
cacheSegment(resolvedRef, resolvedHash) ==
  IF resolvedRef = HeadRef
  THEN sanitizeCacheSegment(IF resolvedHash # <<>> THEN resolvedHash ELSE resolvedRef)
  ELSE sanitizeCacheSegment(resolvedRef)

\* the part of resolveGithubRulesRoot behind the ref resolution: refresh, clone
\* or fetch, and the check of <cacheDir>/rules
\* the catch block of the clone: the commit to fetch is the resolved hash,
\* else a ref that looks like a hash, else the clone's error is thrown
fetchFallback(kept, rem, resolvedRef, resolvedHash, seg, fail, run) ==
  With(IF resolvedHash # <<>> /\ looksLikeCommitHash(resolvedHash)
       THEN fetchCommit(kept, rem, resolvedHash, seg, fail, run)
       ELSE IF looksLikeCommitHash(resolvedRef)
            THEN fetchCommit(kept, rem, resolvedRef, seg, fail, run)
            ELSE [err |-> "git clone failed", cache |-> kept, git |-> <<>>],
       LAMBDA fetched : [fetched EXCEPT !.git = <<"clone">> \o @])

\* a resolver that goes to the fetch of the commit without trying the clone
cloneOrFetchWithoutClone(kept, rem, resolvedRef, resolvedHash, seg, fail, run) ==
  IF seg \in DOMAIN kept THEN [err |-> "", cache |-> kept, git |-> <<>>]
  ELSE fetchFallback(kept, rem, resolvedRef, resolvedHash, seg, fail, run)

\* if (!fs.existsSync(cacheDir)) { try clone, catch fetch }
cloneOrFetch(kept, rem, resolvedRef, resolvedHash, seg, fail, run) ==
  IF seg \in DOMAIN kept THEN [err |-> "", cache |-> kept, git |-> <<>>]
  ELSE With(cloneAtRef(kept, rem, resolvedRef, seg, fail, run),
            LAMBDA cloned :
              IF cloned.ok THEN [err |-> "", cache |-> cloned.cache, git |-> <<"clone">>]
              ELSE fetchFallback(kept, rem, resolvedRef, resolvedHash, seg, fail, run))

\* a resolver that keeps the cache directory it finds, with --refresh too
populateCacheKept(cache, rem, resolvedRef, resolvedHash, refresh, fail, run) ==
  With(cacheSegment(resolvedRef, resolvedHash),
       LAMBDA seg :
         With(cloneOrFetch(cache, rem, resolvedRef, resolvedHash, seg, fail, run),
              LAMBDA after :
                [err |-> IF after.err # "" THEN after.err
                         ELSE IF ~after.cache[seg].complete THEN "Missing directory"
                         ELSE "",
                 cache |-> after.cache, seg |-> seg, git |-> after.git]))

populateCache(cache, rem, resolvedRef, resolvedHash, refresh, fail, run) ==
  With(cacheSegment(resolvedRef, resolvedHash),
       LAMBDA seg :
         With(IF refresh /\ seg \in DOMAIN cache
              THEN [s \in (DOMAIN cache) \ {seg} |-> cache[s]] ELSE cache,
              LAMBDA kept :
                With(cloneOrFetch(kept, rem, resolvedRef, resolvedHash, seg, fail, run),
                     LAMBDA after :
                       [err |-> IF after.err # "" THEN after.err
                                ELSE IF ~after.cache[seg].complete THEN "Missing directory"
                                ELSE "",
                        cache |-> after.cache, seg |-> seg, git |-> after.git])))

\* resolveGithubRulesRoot: [err, cache, seg, resolvedRef, resolvedHash, git]
\* the ref and hash resolveGithubRulesRoot settles on: [ref, hash]
resolveRef(rem, ref) ==
  With(IF ref = Latest THEN resolveLatestTag(rem.tags)
       ELSE [found |-> FALSE, tag |-> <<>>, hash |-> <<>>],
       LAMBDA resolved :
         With(IF resolved.found THEN resolved.tag
              ELSE IF ref = Latest THEN HeadRef ELSE ref,
              LAMBDA resolvedRef :
                [ref |-> resolvedRef,
                 hash |-> IF resolved.found THEN resolved.hash
                          ELSE IF resolvedRef = HeadRef THEN resolveHeadHash(rem)
                          ELSE resolveRefHash(rem, resolvedRef)]))

\* a resolution that gives up on no ref
unresolvableNever(resolved) == FALSE

\* if (!resolvedHash && !looksLikeCommitHash(resolvedRef)) throw
unresolvable(resolved) == resolved.hash = <<>> /\ ~looksLikeCommitHash(resolved.ref)

\* a resolver that goes on to the cache directory whatever the listing of the
\* remote answered
resolveGithubRulesRootUnlisted(cache, rem, source, refresh, fail, run) ==
  With(resolveRef(rem, parseGithubSource(source).ref),
       LAMBDA resolved :
         With(populateCache(cache, rem, resolved.ref, resolved.hash, refresh, fail, run),
              LAMBDA p :
                [err |-> p.err, cache |-> p.cache, seg |-> p.seg,
                 resolvedRef |-> resolved.ref, resolvedHash |-> resolved.hash,
                 git |-> <<"ls-remote">> \o p.git]))

resolveGithubRulesRoot(cache, rem, source, refresh, fail, run) ==
  With(resolveRef(rem, parseGithubSource(source).ref),
       LAMBDA resolved :
         IF fail = "ls-remote" \/ unresolvable(resolved)
         THEN [err |-> IF fail = "ls-remote" THEN "git ls-remote failed"
                       ELSE "Unable to resolve ref",
               cache |-> cache, seg |-> <<>>, resolvedRef |-> resolved.ref,
               resolvedHash |-> resolved.hash, git |-> <<"ls-remote">>]
         ELSE With(populateCache(cache, rem, resolved.ref, resolved.hash, refresh, fail, run),
                   LAMBDA p :
                     [err |-> p.err, cache |-> p.cache, seg |-> p.seg,
                      resolvedRef |-> resolved.ref, resolvedHash |-> resolved.hash,
                      git |-> <<"ls-remote">> \o p.git]))

(***************************************************************************)
(* The checkout of a commit, seen at the cache directory of the run.       *)
(***************************************************************************)
CacheDir == <<"/", "cache", "o", "r", "checkout">>

fragmentText(name, origin) == << <<"#", name>> \o origin, NL >>

checkoutFiles(commit) ==
  ((CacheDir \o <<"rules", "global", "a.md">>) :> fragmentText("a.md", commit)) @@
  ((CacheDir \o <<"rules", "domains", "node", "t.md">>) :> fragmentText("t.md", commit))

checkoutDirs ==
  ancestors(CacheDir \o <<"rules", "global">>)
    \cup ancestors(CacheDir \o <<"rules", "domains", "node">>)

\* the file system with the cache entry of the run at CacheDir
withCheckout(st, entry) ==
  IF entry.complete
  THEN [st EXCEPT !.files = checkoutFiles(entry.commit) @@ @, !.dirs = @ \cup checkoutDirs]
  ELSE [st EXCEPT !.dirs = @ \cup ancestors(CacheDir)]

\* resolveRulesRoot: [err, st, view, rulesRoot, resolvedRef, git]; view is the
\* file system the rules are read from
resolveRulesRoot(st, rem, rulesetDir, source, refresh, env) ==
  IF source.kind = "github"
  THEN With(resolveGithubRulesRoot(st.cache, rem, source, refresh, env.fail, env.run),
            LAMBDA g :
              With([st EXCEPT !.cache = g.cache],
                   LAMBDA st1 :
                     [err |-> g.err, st |-> st1,
                      view |-> IF g.err = "" THEN withCheckout(st1, g.cache[g.seg]) ELSE st1,
                      rulesRoot |-> pathJoin(CacheDir, "rules"),
                      resolvedRef |-> g.resolvedRef, git |-> g.git]))
  ELSE With(resolveLocalRulesRoot(st, rulesetDir, source),
            LAMBDA l : [err |-> l.err, st |-> st, view |-> st, rulesRoot |-> l.rulesRoot,
                        resolvedRef |-> <<>>, git |-> <<>>])

\* a description that is the path relative to the ruleset file's directory for
\* every rule, those of a GitHub source too
formatRuleSourcePathLocal(rulePath, rulesRoot, rulesetDir, source, resolvedRef) ==
  <<"Source:">> \o pathRelative(rulesetDir, rulePath)

\* formatRuleSourcePath, as the token of the "Source: ..." line
formatRuleSourcePath(rulePath, rulesRoot, rulesetDir, source, resolvedRef) ==
  IF IsPrefix(rulesRoot, rulePath) /\ source.kind = "github"
  THEN <<"Source:", "github:", "o", "r", "@">>
         \o (IF resolvedRef # <<>> THEN resolvedRef ELSE parseGithubSource(source).ref)
         \o <<"/">> \o pathRelative(dirname(rulesRoot), rulePath)
  ELSE <<"Source:">> \o pathRelative(rulesetDir, rulePath)

\* the rule list of composeRuleset: global, then the domains, then the extra files
directRulePaths(rulesetDir, ruleset) ==
  [i \in 1..Len(ruleset.extra) |-> resolveFrom(rulesetDir, ruleset.extra[i])]

\* a rule list that starts with the global directory whatever the ruleset says
assembleRulesWithGlobal(view, rulesRoot, rulesetDir, ruleset, ord) ==
  With(With(pathJoin(rulesRoot, "global"),
            LAMBDA globalRoot : addCollected(view, globalRoot, ord, NoRules)),
       LAMBDA g :
         With(With(pathJoin(rulesRoot, "domains"),
                   LAMBDA domainsRoot : addDomains(view, domainsRoot, ruleset.domains, ord, g)),
              LAMBDA d :
                With(directRulePaths(rulesetDir, ruleset),
                     LAMBDA direct : addRulePaths(view, direct, d))))

assembleRules(view, rulesRoot, rulesetDir, ruleset, ord) ==
  With(IF ruleset.global # FALSE
       THEN With(pathJoin(rulesRoot, "global"),
                 LAMBDA globalRoot : addCollected(view, globalRoot, ord, NoRules))
       ELSE NoRules,
       LAMBDA g :
         With(With(pathJoin(rulesRoot, "domains"),
                   LAMBDA domainsRoot : addDomains(view, domainsRoot, ruleset.domains, ord, g)),
              LAMBDA d :
                With(directRulePaths(rulesetDir, ruleset),
                     LAMBDA direct : addRulePaths(view, direct, d))))

\* resolvedRules.map(...): [err, parts]; reading a directory throws
readParts(view, asm, rulesRoot, rulesetDir, source, resolvedRef) ==
  IF asm.err # "" THEN [err |-> asm.err, parts |-> <<>>]
  ELSE IF \E i \in 1..Len(asm.rules) : ~isFile(view, asm.rules[i])
       THEN [err |-> "EISDIR", parts |-> <<>>]
       ELSE [err |-> "",
             parts |-> [i \in 1..Len(asm.rules) |->
               << formatRuleSourcePath(asm.rules[i], rulesRoot, rulesetDir, source, resolvedRef),
                  NL, NL >>
               \o normalizeTrailingWhitespace(readFileSync(view, asm.rules[i]))]]

\* `${lintHeader}\n${[toolRules, ...parts].join("\n\n")}\n`
RECURSIVE joinParts(_)
joinParts(parts) ==
  IF parts = <<>> THEN <<>> ELSE <<NL, NL>> \o Head(parts) \o joinParts(Tail(parts))

composeOutput(parts) ==
  <<LintHeader, NL>> \o normalizeTrailingWhitespace(TOOL_RULES) \o joinParts(parts) \o <<NL>>

\* a write that is not guarded by options.dryRun
writeComposedInDryRun(st, err, outputPath, output, dryRun) ==
  IF err # "" THEN st ELSE writeFile(st, outputPath, output)

\* a write made before the fragments are known to be readable
writeComposedOnFailure(st, err, outputPath, output, dryRun) ==
  IF dryRun THEN st ELSE writeFile(st, outputPath, output)

\* if (!options.dryRun) { mkdirSync; writeFileSync }: reached only when nothing threw
writeComposed(st, err, outputPath, output, dryRun) ==
  IF err # "" THEN st
  ELSE IF dryRun THEN st
  ELSE writeFile(st, outputPath, output)

\* the companion file: written after the output, when enabled and at another path
companionPath(ruleset, rulesetDir) == resolveFrom(rulesetDir, ruleset.claude.output)

\* a companion that is written whatever the setting and the paths
companionWantedAlways(ruleset, rulesetDir, outputPath) == TRUE

companionWanted(ruleset, rulesetDir, outputPath) ==
  ruleset.claude.enabled /\ companionPath(ruleset, rulesetDir) # outputPath

companionText(companion, outputPath) ==
  << <<"@">> \o pathRelative(dirname(companion), outputPath), NL >>

writeCompanion(st, ruleset, rulesetDir, outputPath, dryRun) ==
  IF dryRun \/ ~companionWanted(ruleset, rulesetDir, outputPath) THEN st
  ELSE With(companionPath(ruleset, rulesetDir),
            LAMBDA companion :
              With(companionText(companion, outputPath),
                   LAMBDA text : writeFile(st, companion, text)))

NoCompose ==
  [err |-> "", st |-> <<>>, composed |-> <<>>, rules |-> <<>>, git |-> <<>>,
   output |-> <<>>, outputPath |-> <<>>, read |-> <<>>, resolvedRef |-> <<>>,
   message |-> <<>>, applied |-> <<>>, rem |-> <<>>]

\* composeRuleset behind the rules root: collect, read, join, write
finishCompose(ruleset, root, asm, p, rulesetDir, rootDir, options) ==
  With(resolveFrom(rulesetDir, ruleset.output),
       LAMBDA outputPath :
         With(composeOutput(p.parts),
              LAMBDA output :
                With(writeComposed(root.st, p.err, outputPath, output, options.dryRun),
                     LAMBDA written :
                       IF p.err # ""
                       THEN [NoCompose EXCEPT !.err = p.err, !.st = written, !.git = root.git,
                                              !.outputPath = outputPath]
                       ELSE [err |-> "",
                             st |-> writeCompanion(written, ruleset, rulesetDir,
                                                   outputPath, options.dryRun),
                             composed |-> <<pathRelative(rootDir, outputPath)>>
                               \o (IF companionWanted(ruleset, rulesetDir, outputPath)
                                   THEN <<pathRelative(rootDir,
                                            companionPath(ruleset, rulesetDir))>>
                                   ELSE <<>>),
                             rules |-> asm.rules, git |-> root.git, output |-> output,
                             outputPath |-> outputPath,
                             read |-> [i \in 1..Len(asm.rules) |->
                                         readFileSync(root.view, asm.rules[i])],
                             resolvedRef |-> root.resolvedRef, message |-> <<>>,
                             applied |-> <<>>, rem |-> <<>>])))

composeFrom(ruleset, root, rulesetDir, rootDir, options, env) ==
  With(assembleRules(root.view, root.rulesRoot, rulesetDir, ruleset, env.ord),
       LAMBDA asm :
         With(readParts(root.view, asm, root.rulesRoot, rulesetDir, ruleset.source,
                        root.resolvedRef),
              LAMBDA p : finishCompose(ruleset, root, asm, p, rulesetDir, rootDir, options)))

\* composeRuleset(rulesetPath, rootDir, options): what it leaves and returns.
\* env is [ord, fail, run]: the readdir order, the failing git command, the run.
composeRuleset(st, rem, rulesetPath, rootDir, options, env) ==
  With(readProjectRuleset(st, rulesetPath),
       LAMBDA r :
         IF r.err # "" THEN [NoCompose EXCEPT !.err = r.err, !.st = st, !.message = r.message]
         ELSE With(resolveRulesRoot(st, rem, dirname(rulesetPath), r.ruleset.source,
                                    options.refresh, env),
                   LAMBDA root :
                     IF root.err # ""
                     THEN [NoCompose EXCEPT !.err = root.err, !.st = root.st, !.git = root.git]
                     ELSE composeFrom(r.ruleset, root, dirname(rulesetPath), rootDir,
                                      options, env)))

(***************************************************************************)
(* init                                                                    *)
(***************************************************************************)
LOCAL_RULES_TEMPLATE == << <<"# Local Rules">>, NL, NL, <<"- Add project-specific instructions here.">>, NL >>

\* buildInitRuleset and formatInitRuleset, read back as the ruleset file's JSON;
\* args is [source, domains, extra, output, noGlobal, force, compose, dryRun,
\* refresh, confirm]
buildInitRuleset(args) ==
  [exists |-> TRUE,
   has |-> {"output"} \cup (IF args.noGlobal THEN {"global"} ELSE {}),
   source |-> args.source,
   global |-> ~args.noGlobal,
   domains |-> args.domains,
   extra |-> args.extra,
   output |-> IF args.output = <<>> THEN DEFAULT_OUTPUT ELSE args.output,
   claude |-> [enabled |-> TRUE, output |-> <<>>]]

\* confirmInit: "" when init may proceed
confirmInit(args) ==
  IF args.dryRun \/ args.confirm = "--yes" THEN ""
  ELSE IF args.confirm = "no tty" THEN "Confirmation required"
  ELSE IF args.confirm = "tty: y" THEN ""
  ELSE "Init aborted"

\* a plan that overwrites the extra files that exist, with --force or without
RECURSIVE planExtraOverwrite(_, _, _)
planExtraOverwrite(st, extraFiles, force) ==
  IF extraFiles = <<>> THEN <<>>
  ELSE With(Head(extraFiles),
            LAMBDA e :
              <<[action |-> IF existsSync(st, e) THEN "overwrite" ELSE "create", path |-> e]>>
              \o planExtraOverwrite(st, Tail(extraFiles), force))

RECURSIVE planExtra(_, _, _)
planExtra(st, extraFiles, force) ==
  IF extraFiles = <<>> THEN <<>>
  ELSE With(Head(extraFiles),
            LAMBDA e :
              (IF existsSync(st, e)
               THEN (IF force THEN <<[action |-> "overwrite", path |-> e]>> ELSE <<>>)
               ELSE <<[action |-> "create", path |-> e]>>)
              \o planExtra(st, Tail(extraFiles), force))

RECURSIVE writeExtra(_, _)
writeExtra(st, extraToWrite) ==
  IF extraToWrite = <<>> THEN st
  ELSE With(writeFile(st, Head(extraToWrite), LOCAL_RULES_TEMPLATE),
            LAMBDA written : writeExtra(written, Tail(extraToWrite)))

\* the plan of initProject: the ruleset, the extra files, the output
initPlan(st, outputPath, extraPlan, compose) ==
  <<[action |-> IF st.ruleset.exists THEN "overwrite" ELSE "create", path |-> RulesetPath]>>
  \o extraPlan
  \o (IF compose
      THEN <<[action |-> IF existsSync(st, outputPath) THEN "overwrite" ELSE "create",
              path |-> outputPath]>>
      ELSE <<>>)

initStop(st, err, shown) ==
  [err |-> err, st |-> st, plan |-> shown, composed |-> <<>>, rules |-> <<>>,
   git |-> <<>>, wrote |-> FALSE, c |-> NoCompose]

\* initProject behind the confirmation: the writes and the compose
initWrite(st, rem, rootDir, args, env, new, plan, extraPlan) ==
  With(writeExtra([st EXCEPT !.ruleset = new], [i \in 1..Len(extraPlan) |-> extraPlan[i].path]),
       LAMBDA withExtra :
         IF ~args.compose
         THEN [err |-> "", st |-> withExtra, plan |-> plan, composed |-> <<>>,
               rules |-> <<>>, git |-> <<>>, wrote |-> TRUE, c |-> NoCompose]
         ELSE With(composeRuleset(withExtra, rem, RulesetPath, rootDir,
                                  [refresh |-> args.refresh, dryRun |-> FALSE], env),
                   LAMBDA c :
                     [err |-> c.err, st |-> c.st, plan |-> plan, composed |-> c.composed,
                      rules |-> c.rules, git |-> c.git, wrote |-> TRUE, c |-> c]))

\* initProject behind the build of the ruleset
initWith(st, rem, rootDir, args, env, new, outputPath) ==
  IF st.ruleset.exists /\ ~args.force THEN initStop(st, "Ruleset already exists", <<>>)
  ELSE IF args.compose /\ existsSync(st, outputPath) /\ ~args.force
       THEN initStop(st, "Output already exists", <<>>)
  ELSE With(planExtra(st, [i \in 1..Len(new.extra) |->
                             resolveFrom(dirname(RulesetPath), new.extra[i])], args.force),
            LAMBDA extraPlan :
              With(initPlan(st, outputPath, extraPlan, args.compose),
                   LAMBDA plan :
                     IF args.dryRun THEN initStop(st, "", plan)
                     ELSE IF confirmInit(args) # "" THEN initStop(st, confirmInit(args), plan)
                     ELSE initWrite(st, rem, rootDir, args, env, new, plan, extraPlan)))

\* initProject: [err, st, plan, composed, rules, git, wrote]
initProject(st, rem, rootDir, args, env) ==
  With(buildInitRuleset(args),
       LAMBDA new :
         With(resolveFrom(dirname(RulesetPath), new.output),
              LAMBDA outputPath : initWith(st, rem, rootDir, args, env, new, outputPath)))

(***************************************************************************)
(* main: the ruleset file of a run and the commands compose, apply-rules   *)
(* and edit-rules.  args is [ruleset, refresh, dryRun]; ruleset is the     *)
(* value of --ruleset, <<>> when the option is not given.                  *)
(***************************************************************************)
\* fs.existsSync of a ruleset file
rulesetFileExists(st, filePath) == readJsonFile(st, filePath).exists

\* a search that goes on into the subdirectory when the root has no ruleset
getRulesetFilesNested(st, rootDir, specificRuleset) ==
  IF specificRuleset # <<>>
  THEN With(resolveFrom(rootDir, specificRuleset),
            LAMBDA resolved :
              IF ~rulesetFileExists(st, resolved) THEN [err |-> "Missing file", files |-> <<>>]
              ELSE [err |-> "", files |-> <<resolved>>])
  ELSE With(pathJoin(rootDir, DEFAULT_RULESET_NAME),
            LAMBDA defaultRuleset :
              [err |-> "",
               files |-> IF rulesetFileExists(st, defaultRuleset) THEN <<defaultRuleset>>
                         ELSE IF rulesetFileExists(st, NestedRulesetPath)
                              THEN <<NestedRulesetPath>>
                              ELSE <<>>])

\* getRulesetFiles: [err, files]
getRulesetFiles(st, rootDir, specificRuleset) ==
  IF specificRuleset # <<>>
  THEN With(resolveFrom(rootDir, specificRuleset),
            LAMBDA resolved :
              IF ~rulesetFileExists(st, resolved) THEN [err |-> "Missing file", files |-> <<>>]
              ELSE [err |-> "", files |-> <<resolved>>])
  ELSE With(pathJoin(rootDir, DEFAULT_RULESET_NAME),
            LAMBDA defaultRuleset :
              [err |-> "",
               files |-> IF rulesetFileExists(st, defaultRuleset) THEN <<defaultRuleset>>
                         ELSE <<>>])

\* a command that throws before it changes anything
mainFail(st, err) == [NoCompose EXCEPT !.err = err, !.st = st]

\* ensureSingleRuleset: "" when there is a ruleset file
ensureSingleRuleset(g) ==
  IF g.err # "" THEN g.err ELSE IF g.files = <<>> THEN "Missing ruleset file" ELSE ""

\* resolveWorkspaceRoot of a local source
resolveWorkspaceRoot(rulesetDir, source) == resolveFrom(rulesetDir, source.path)

WorkspaceCommands ==
  {"workspace clone", "workspace fetch", "workspace checkout", "status", "rev-parse", "push"}

\* git clone <url> <workspaceRoot>: the default branch, at the commit of the remote
cloneWorkspace(rem) ==
  [exists |-> TRUE, dirty |-> FALSE, detached |-> FALSE, main |-> rem.head, head |-> rem.head]

\* git checkout <ref> in the workspace: [err, ws]; a branch is checked out as
\* the workspace has it, a tag or a commit leaves HEAD detached
checkoutWorkspace(ws, rem, ref) ==
  IF hashOfBranch(rem, ref) # <<>>
  THEN [err |-> "", ws |-> [ws EXCEPT !.detached = FALSE, !.head = ws.main]]
  ELSE IF hashOfTag(rem, ref) # <<>>
  THEN [err |-> "", ws |-> [ws EXCEPT !.detached = TRUE, !.head = hashOfTag(rem, ref)]]
  ELSE IF ref \in rem.commits
  THEN [err |-> "", ws |-> [ws EXCEPT !.detached = TRUE, !.head = ref]]
  ELSE [err |-> "git checkout failed", ws |-> ws]

\* the clone step of ensureWorkspaceForGithubSource: [err, ws, git]
ensureWorkspaceCloned(ws, rem, fail) ==
  IF ws.exists THEN [err |-> "", ws |-> ws, git |-> <<>>]
  ELSE IF fail = "workspace clone"
  THEN [err |-> "git clone failed", ws |-> ws, git |-> <<"workspace clone">>]
  ELSE [err |-> "", ws |-> cloneWorkspace(rem), git |-> <<"workspace clone">>]

\* ensureWorkspaceForGithubSource: [err, ws, git]
ensureWorkspaceForGithubSource(ws, rem, source, fail) ==
  With(ensureWorkspaceCloned(ws, rem, fail),
       LAMBDA c :
         IF c.err # "" \/ parseGithubSource(source).ref = Latest THEN c
         ELSE IF fail = "workspace fetch"
         THEN [err |-> "git fetch failed", ws |-> c.ws, git |-> c.git \o <<"workspace fetch">>]
         ELSE With(IF fail = "workspace checkout"
                   THEN [err |-> "git checkout failed", ws |-> c.ws]
                   ELSE checkoutWorkspace(c.ws, rem, parseGithubSource(source).ref),
                   LAMBDA o :
                     [err |-> o.err, ws |-> o.ws,
                      git |-> c.git \o <<"workspace fetch", "workspace checkout">>]))

\* git push in the workspace: the remote's branch takes the commit of the workspace's
pushWorkspace(rem, ws) ==
  [rem EXCEPT !.branches = <<[name |-> Main, hash |-> ws.main]>>, !.head = ws.main,
              !.commits = @ \cup {ws.main}]

\* applyRulesFromWorkspace behind the workspace: status, branch, push
pushFromWorkspace(st, rem, e, fail) ==
  IF fail = "status"
  THEN [err |-> "git status failed", st |-> st, rem |-> <<>>, git |-> e.git \o <<"status">>]
  ELSE IF e.ws.dirty
  THEN [err |-> "Workspace has uncommitted changes", st |-> st, rem |-> <<>>,
        git |-> e.git \o <<"status">>]
  ELSE IF fail = "rev-parse"
  THEN [err |-> "git rev-parse failed", st |-> st, rem |-> <<>>,
        git |-> e.git \o <<"status", "rev-parse">>]
  ELSE IF e.ws.detached
  THEN [err |-> "Workspace is in detached HEAD state", st |-> st, rem |-> <<>>,
        git |-> e.git \o <<"status", "rev-parse">>]
  ELSE IF fail = "push"
  THEN [err |-> "git push failed", st |-> st, rem |-> <<>>,
        git |-> e.git \o <<"status", "rev-parse", "push">>]
  ELSE [err |-> "", st |-> st, rem |-> <<pushWorkspace(rem, e.ws)>>,
        git |-> e.git \o <<"status", "rev-parse", "push">>]

\* applyRulesFromWorkspace: [err, st, rem, git]; nothing to do for a local source
applyRulesFromWorkspace(st, rem, source, fail) ==
  IF source.kind # "github" THEN [err |-> "", st |-> st, rem |-> <<>>, git |-> <<>>]
  ELSE With(ensureWorkspaceForGithubSource(st.workspace, rem, source, fail),
            LAMBDA e :
              With([st EXCEPT !.workspace = e.ws],
                   LAMBDA ensured :
                     IF e.err # ""
                     THEN [err |-> e.err, st |-> ensured, rem |-> <<>>, git |-> e.git]
                     ELSE pushFromWorkspace(ensured, rem, e, fail)))

\* main: compose
mainCompose(st, rem, rootDir, args, env) ==
  With(getRulesetFiles(st, rootDir, args.ruleset),
       LAMBDA g :
         IF ensureSingleRuleset(g) # "" THEN mainFail(st, ensureSingleRuleset(g))
         ELSE composeRuleset(st, rem, g.files[1], rootDir,
                             [refresh |-> args.refresh, dryRun |-> args.dryRun], env))

\* an apply-rules that composes from the remote as it was before the push
mainApplyRulesComposeFirst(st, rem, rootDir, args, env) ==
  With(getRulesetFiles(st, rootDir, args.ruleset),
       LAMBDA g :
         IF ensureSingleRuleset(g) # "" THEN mainFail(st, ensureSingleRuleset(g))
         ELSE With(readProjectRuleset(st, g.files[1]),
                   LAMBDA r :
                     IF r.err # "" THEN [mainFail(st, r.err) EXCEPT !.message = r.message]
                     ELSE With(applyRulesFromWorkspace(st, rem, r.ruleset.source, env.fail),
                               LAMBDA a :
                                 IF a.err # ""
                                 THEN [mainFail(a.st, a.err) EXCEPT !.applied = a.git]
                                 ELSE [composeRuleset(a.st, rem, g.files[1], rootDir,
                                         [refresh |-> TRUE, dryRun |-> args.dryRun], env)
                                       EXCEPT !.applied = a.git, !.rem = a.rem])))

\* main: apply-rules
mainApplyRules(st, rem, rootDir, args, env) ==
  With(getRulesetFiles(st, rootDir, args.ruleset),
       LAMBDA g :
         IF ensureSingleRuleset(g) # "" THEN mainFail(st, ensureSingleRuleset(g))
         ELSE With(readProjectRuleset(st, g.files[1]),
                   LAMBDA r :
                     IF r.err # "" THEN [mainFail(st, r.err) EXCEPT !.message = r.message]
                     ELSE With(applyRulesFromWorkspace(st, rem, r.ruleset.source, env.fail),
                               LAMBDA a :
                                 IF a.err # ""
                                 THEN [mainFail(a.st, a.err) EXCEPT !.applied = a.git]
                                 ELSE With(IF a.rem = <<>> THEN rem ELSE a.rem[1],
                                           LAMBDA pushed :
                                             [composeRuleset(a.st, pushed, g.files[1], rootDir,
                                                [refresh |-> TRUE, dryRun |-> args.dryRun], env)
                                              EXCEPT !.applied = a.git, !.rem = a.rem]))))

\* main: edit-rules, which prints the workspace of the rules (in composed)
mainEditRules(st, rem, rootDir, args, env) ==
  With(getRulesetFiles(st, rootDir, args.ruleset),
       LAMBDA g :
         IF ensureSingleRuleset(g) # "" THEN mainFail(st, ensureSingleRuleset(g))
         ELSE With(readProjectRuleset(st, g.files[1]),
                   LAMBDA r :
                     IF r.err # "" THEN [mainFail(st, r.err) EXCEPT !.message = r.message]
                     ELSE [mainFail(st, "") EXCEPT !.composed =
                             <<resolveWorkspaceRoot(dirname(g.files[1]), r.ruleset.source)>>]))

\* main: the command of the run
main(cmd, st, rem, rootDir, args, env) ==
  IF cmd = "edit-rules" THEN mainEditRules(st, rem, rootDir, args, env)
  ELSE IF cmd = "apply-rules" THEN mainApplyRules(st, rem, rootDir, args, env)
  ELSE mainCompose(st, rem, rootDir, args, env)

(***************************************************************************)
(* The project of the model: a local rules source rs, a source without a   *)
(* global directory (bare), a local rule file and a symbolic link to a     *)
(* global rule.                                                            *)
(***************************************************************************)
RulesRoot == <<"/", "p", "rs", "rules">>

SourceFiles ==
  { RulesRoot \o <<"global", "a.md">>,
    RulesRoot \o <<"global", "B.md">>,
    RulesRoot \o <<"global", "sub", "c.MD">>,
    RulesRoot \o <<"global", "sub", "n.txt">>,
    RulesRoot \o <<"domains", "node", "t.md">>,
    RulesRoot \o <<"domains", "node", "a.md">>,
    RulesRoot \o <<"domains", "web", "t.md">>,
    <<"/", "p", "bare", "rules", "domains", "node", "t.md">>,
    <<"/", "p", "local.md">>,
    <<"/", "p", "f", "rules">> }

StaleOutput == << <<"stale">>, NL >>

InitialFiles(withOutput) ==
  [f \in SourceFiles \cup (IF withOutput THEN {ProjectRoot \o DEFAULT_OUTPUT} ELSE {}) |->
     IF f \in SourceFiles THEN fragmentText(Last(f), SubSeq(f, 3, Len(f) - 1))
     ELSE StaleOutput]

InitialDirs == UNION { ancestors(dirname(f)) : f \in SourceFiles }

LocalSource(p) == [kind |-> "local", path |-> p, ref |-> <<>>]

GithubSource(ref) == [kind |-> "github", path |-> <<>>, ref |-> ref]

\* a ruleset file; an empty output or a "default" flag leaves the key out
Ruleset(source, globalKey, domains, extra, output, claudeKey) ==
  [exists |-> TRUE,
   has |-> (IF globalKey = "absent" THEN {} ELSE {"global"})
           \cup (IF output = <<"absent">> THEN {} ELSE {"output"})
           \cup (IF claudeKey = "absent" THEN {} ELSE {"claude"}),
   source |-> source,
   global |-> globalKey # "false",
   domains |-> domains,
   extra |-> extra,
   output |-> IF output = <<"absent">> THEN <<>> ELSE output,
   claude |-> [enabled |-> claudeKey # "disabled", output |-> DEFAULT_CLAUDE_OUTPUT]]

OutputInGlobal == <<"rs", "rules", "global", "z.md">>

ValidRulesets ==
  { Ruleset(LocalSource(<<"rs">>), g, d, e, <<"absent">>, "absent") :
      g \in {"absent", "false"},
      d \in { <<>>, << <<"node">>, <<"web">>, <<"node">> >> },
      e \in { <<>>,
              << <<"local.md">>, <<"rs", "rules", "global", "a.md">> >>,
              << <<"link.md">> >>,
              << <<"AGENTS.md">> >> } }
  \cup
  { Ruleset(LocalSource(<<"rs">>), "absent", <<>>, e, o, c) :
      e \in { <<>>, << <<"local.md">> >> },
      o \in { <<"absent">>, OutputInGlobal },
      c \in {"absent", "disabled"} }
  \cup
  { Ruleset(LocalSource(<<"bare">>), "false", << <<"node">> >>, <<>>, <<"absent">>, "absent") }
  \cup
  { Ruleset(LocalSource(<<"rs">>), "absent", <<>>, <<>>, DEFAULT_CLAUDE_OUTPUT, "absent") }

BaseRuleset(source, domains, extra, output) ==
  Ruleset(source, "absent", domains, extra, output, "absent")

FailingRulesets ==
  { NoRuleset,
    BaseRuleset([kind |-> "empty", path |-> <<>>, ref |-> <<>>],
                << <<"node">>, <<>> >>, << <<"local.md">>, <<>> >>, <<>>),
    BaseRuleset(LocalSource(<<"rs">>), << <<"node">>, <<>> >>, <<>>, <<"absent">>),
    BaseRuleset(LocalSource(<<"nosrc">>), <<>>, <<>>, <<"absent">>),
    BaseRuleset(LocalSource(<<"bare">>), << <<"node">> >>, <<>>, <<"absent">>),
    BaseRuleset(LocalSource(<<"rs", "rules">>), << <<"nodir">> >>, <<>>, <<"absent">>),
    BaseRuleset(LocalSource(<<"rs">>), <<>>, << <<"local.md">>, <<"nofile.md">> >>, <<"absent">>),
    BaseRuleset(LocalSource(<<"rs">>), <<>>, << <<"local.md">>, <<"rs">> >>, <<"absent">>) }

NoRemote == [tags |-> <<>>, branches |-> <<>>, head |-> <<>>, commits |-> {}]

\* no invocation is under way
NoProcs == <<>>

\* no clone of the rules repository under the workspace root
NoWorkspace == [exists |-> FALSE, dirty |-> FALSE, detached |-> FALSE, main |-> <<>>, head |-> <<>>]

NoCache == [s \in {} |-> [complete |-> FALSE, commit |-> <<>>, by |-> 0]]

NoLast ==
  [cmd |-> "none", dry |-> FALSE, refresh |-> FALSE, fail |-> "none",
   err |-> "", composed |-> <<>>, rules |-> <<>>, git |-> <<>>, plan |-> <<>>,
   outputPath |-> <<>>, output |-> <<>>, read |-> <<>>, wrote |-> FALSE,
   resolvedRef |-> <<>>, args |-> <<>>, message |-> <<>>, specific |-> <<>>,
   applied |-> <<>>, remoteBefore |-> <<>>, exit |-> 0, stderr |-> <<>>]

NoFirst == [n |-> 0, outputPath |-> <<>>, output |-> <<>>]

\* the ruleset file of the subdirectory nested: the rules of ../rs, all defaults
NestedRuleset ==
  Ruleset(LocalSource(<<"..", "rs">>), "absent", <<>>, <<>>, <<"absent">>, "absent")

state ==
  [files |-> files, dirs |-> dirs, ruleset |-> rulesetFile, cache |-> cacheDirs,
   nested |-> NestedRuleset, workspace |-> workspace]

Init ==
  /\ \E withOutput \in BOOLEAN : files = InitialFiles(withOutput)
  /\ dirs = InitialDirs
  /\ rulesetFile \in ValidRulesets \cup FailingRulesets
  /\ cacheDirs = NoCache
  /\ remote = NoRemote
  /\ workspace = NoWorkspace
  /\ procs = NoProcs
  /\ pre = state
  /\ last = NoLast
  /\ first = NoFirst
  /\ runs = 0

(***************************************************************************)
(* The commands.  pre is the state the last command started from, last     *)
(* what it was given and what it reported, first the output written by the *)
(* first compose since the ruleset and the sources last changed.           *)
(***************************************************************************)
setState(st) ==
  /\ files' = st.files
  /\ dirs' = st.dirs
  /\ rulesetFile' = st.ruleset
  /\ cacheDirs' = st.cache
  /\ workspace' = st.workspace
  /\ UNCHANGED procs

usage == "usage"

\* a run that ends with exit code 0 whatever main threw
runSilent(err) == [exit |-> 0, stderr |-> <<>>]

\* run: main, and for what it throws the message and the usage on standard
\* error and exit code 1
run(err) ==
  IF err = "" THEN [exit |-> 0, stderr |-> <<>>]
  ELSE [exit |-> 1, stderr |-> <<err, usage>>]

\* main: compose (refresh as given) and apply-rules (refresh: true)
RunMain(cmd, specific, dry, refresh, ord, fail) ==
  /\ runs < MaxRuns
  /\ \E st \in {state} :
     \E c \in {main(cmd, st, remote, ProjectRoot,
                     [ruleset |-> specific, refresh |-> refresh, dryRun |-> dry],
                     [ord |-> ord, fail |-> fail, run |-> runs + 1])} :
        /\ fail = "none" \/ fail \in Range(c.git) \cup Range(c.applied)
        /\ setState(c.st)
        /\ remote' = IF c.rem = <<>> THEN remote ELSE c.rem[1]
        /\ last' = [NoLast EXCEPT !.cmd = cmd, !.dry = dry, !.refresh = refresh,
                                  !.fail = fail, !.err = c.err, !.composed = c.composed,
                                  !.rules = c.rules, !.git = c.git,
                                  !.outputPath = c.outputPath, !.output = c.output,
                                  !.read = c.read, !.resolvedRef = c.resolvedRef,
                                  !.message = c.message, !.specific = specific,
                                  !.applied = c.applied, !.remoteBefore = <<remote>>,
                                  !.exit = run(c.err).exit, !.stderr = run(c.err).stderr]
        /\ first' = IF dry \/ c.err # "" THEN first
                    ELSE IF first.n = 0
                         THEN [n |-> 1, outputPath |-> c.outputPath, output |-> c.output]
                         ELSE [first EXCEPT !.n = @ + 1]
  /\ pre' = state
  /\ runs' = runs + 1

\* main: init
RunInit(args, ord) ==
  /\ runs < MaxRuns
  /\ \E st \in {state} :
     \E i \in {initProject(st, remote, ProjectRoot, args,
                            [ord |-> ord, fail |-> "none", run |-> runs + 1])} :
        /\ setState(i.st)
        /\ last' = [NoLast EXCEPT !.cmd = "init", !.dry = args.dryRun, !.err = i.err,
                                  !.composed = i.composed, !.rules = i.rules,
                                  !.plan = i.plan, !.wrote = i.wrote,
                                  !.outputPath = i.c.outputPath, !.output = i.c.output,
                                  !.read = i.c.read, !.args = <<args>>,
                                  !.exit = run(i.err).exit, !.stderr = run(i.err).stderr]
        /\ first' = IF ~i.wrote THEN first
                    ELSE IF args.compose /\ i.err = ""
                         THEN [n |-> 1, outputPath |-> i.c.outputPath, output |-> i.c.output]
                         ELSE NoFirst
  /\ pre' = state
  /\ runs' = runs + 1
  /\ UNCHANGED remote

\* the commands without --ruleset
RunCompose(cmd, dry, refresh, ord, fail) == RunMain(cmd, <<>>, dry, refresh, ord, fail)

InitArgs ==
  [source : {LocalSource(<<"rs">>)},
   domains : { <<>> },
   extra : { << <<"local.md">>, <<"new.md">> >> },
   output : { <<>> },
   noGlobal : {FALSE},
   force : BOOLEAN,
   compose : BOOLEAN,
   dryRun : BOOLEAN,
   refresh : {FALSE},
   confirm : {"--yes", "no tty"}]

ComposeLocal == \E dry \in BOOLEAN, ord \in 0..MaxOrder : RunCompose("compose", dry, FALSE, ord, "none")

ApplyRulesLocal == \E dry \in BOOLEAN, ord \in 0..MaxOrder : RunCompose("apply-rules", dry, TRUE, ord, "none")

\* the order of the directory entries only matters to an init that composes
InitLocal ==
  \E args \in InitArgs, ord \in 0..MaxOrder :
    /\ ord = 0 \/ (args.compose /\ ~args.dryRun)
    /\ RunInit(args, ord)

Next == ComposeLocal \/ ApplyRulesLocal \/ InitLocal

Spec == Init /\ [][Next]_vars

(***************************************************************************)
(* The order of the sections, stated from the file system alone.           *)
(***************************************************************************)
rulesetDirNow == dirname(RulesetPath)

isCompose == last.cmd \in {"compose", "apply-rules"}

\* the .md files under a directory (symbolic links are not followed)
markdownUnder(st, d) ==
  { f \in DOMAIN st.files :
      IsPrefix(d, f) /\ Len(f) > Len(d) /\ toLowerCase(extname(codeUnits(Last(f)))) = MdExt }

\* the one arrangement of S that ascends by path relative to d
ascending(S, d) ==
  CHOOSE s \in [1..Cardinality(S) -> S] :
    \A i, j \in 1..Cardinality(S) : i < j => relCompare(d, s[i], s[j]) < 0

RECURSIVE firstOccurrences(_, _)
firstOccurrences(s, seen) ==
  IF s = <<>> THEN <<>>
  ELSE IF Head(s) \in seen THEN firstOccurrences(Tail(s), seen)
  ELSE <<Head(s)>> \o firstOccurrences(Tail(s), seen \cup {Head(s)})

expectedRules(st, rs) ==
  LET root == resolveLocalRulesRoot(st, rulesetDirNow, rs.source).rulesRoot
      g == IF "global" \in rs.has /\ ~rs.global THEN <<>>
           ELSE ascending(markdownUnder(st, root \o <<"global">>), root \o <<"global">>)
      d == Flatten([i \in 1..Len(rs.domains) |->
             ascending(markdownUnder(st, root \o <<"domains">> \o rs.domains[i]),
                       root \o <<"domains">> \o rs.domains[i])])
      e == [i \in 1..Len(rs.extra) |-> ProjectRoot \o rs.extra[i]]
  IN firstOccurrences(g \o d \o e, {})

expectedOutput(st, rs) ==
  LET root == resolveLocalRulesRoot(st, rulesetDirNow, rs.source).rulesRoot
      asm == [err |-> "", rules |-> expectedRules(st, rs), seen |-> {}]
  IN composeOutput(readParts(st, asm, root, rulesetDirNow, rs.source, <<>>).parts)

\* C1: a compose that succeeds with global enabled puts the sections in this
\* order, whatever the order of the directory entries: the .md files under
\* global/ ascending by relative path, then those of each domain in the
\* configured order, ascending, then the extra files in the configured order.
C1_SectionOrder ==
  (isCompose /\ last.err = "" /\ ~("global" \in pre.ruleset.has /\ ~pre.ruleset.global))
    => /\ last.rules = expectedRules(pre, pre.ruleset)
       /\ last.output = expectedOutput(pre, pre.ruleset)

C1_Witness ==
  /\ last.cmd = "compose" /\ last.err = ""
  /\ pre.ruleset.domains # <<>> /\ pre.ruleset.extra # <<>>
  /\ ~("global" \in pre.ruleset.has)
  /\ Len(last.rules) >= 7

\* C2: a compose that succeeds includes no file twice, by whatever routes
\* (global, a domain, a domain listed twice, an extra entry, a link listed in
\* extra) the file is reached.
C2_EachFileOnce ==
  (isCompose /\ last.err = "")
    => \A i, j \in 1..Len(last.rules) :
         i < j => realPath(last.rules[i]) # realPath(last.rules[j])

\* C3: after the first compose of a ruleset has written the output, every
\* further compose with the ruleset and the sources unchanged leaves the
\* output file as the first run wrote it.
C3_Idempotent ==
  first.n >= 1
    => /\ isFile(state, first.outputPath)
       /\ readFileSync(state, first.outputPath) = first.output

\* the files a compose of the present state reads as fragments
fragmentsNow ==
  { realPath(r) : r \in Range(expectedRules(state, readProjectRuleset(state, RulesetPath).ruleset)) }

outputIsFragment ==
  \/ realPath(first.outputPath) \in fragmentsNow
  \/ realPath(companionPath(readProjectRuleset(state, RulesetPath).ruleset, rulesetDirNow))
       \in fragmentsNow

\* C3 (amended): the same, for a ruleset whose output file and companion file
\* are not themselves among the fragments the compose reads.
C3_IdempotentUnlessSelfRead ==
  (first.n >= 1 /\ ~outputIsFragment)
    => /\ isFile(state, first.outputPath)
       /\ readFileSync(state, first.outputPath) = first.output

C3_Witness ==
  /\ first.n >= 2 /\ ~outputIsFragment
  /\ last.cmd = "compose" /\ ~last.dry /\ last.err = ""
  /\ readFileSync(state, first.outputPath) = first.output

\* C4: a run with --dry-run of compose, apply-rules or init changes no file
\* (output, companion, ruleset), and it reports the composed list or plan that
\* the run without --dry-run reports for the same inputs.
C4_DryRunWritesNothing ==
  last.dry
    => /\ files = pre.files /\ dirs = pre.dirs /\ rulesetFile = pre.ruleset
       /\ isCompose =>
            last.composed =
              main(last.cmd, pre, remote, ProjectRoot,
                   [ruleset |-> last.specific, refresh |-> last.refresh, dryRun |-> FALSE],
                   [ord |-> 0, fail |-> "none", run |-> runs]).composed
       /\ last.cmd = "init" =>
            last.plan =
              initProject(pre, remote, ProjectRoot, [last.args[1] EXCEPT !.dryRun = FALSE],
                          [ord |-> 0, fail |-> "none", run |-> runs]).plan

C4_Witness ==
  /\ last.dry /\ last.cmd = "apply-rules" /\ last.err = ""
  /\ last.composed = <<DEFAULT_OUTPUT, DEFAULT_CLAUDE_OUTPUT>>
  /\ ~existsSync(state, last.outputPath)

\* C5: a compose that fails, at whatever step, leaves every file as it was
\* before the run.
C5_FailureLeavesOutput ==
  (isCompose /\ last.err # "") => (files = pre.files /\ dirs = pre.dirs)

C5_Witness ==
  /\ last.cmd = "compose" /\ ~last.dry /\ last.err = "EISDIR"
  /\ isFile(state, ProjectRoot \o DEFAULT_OUTPUT)
  /\ readFileSync(state, ProjectRoot \o DEFAULT_OUTPUT) = StaleOutput

\* the fields of a ruleset file that break the schema, as instance paths
violations(rs) ==
  (IF rs.source.kind = "empty" THEN { <<"/source">> } ELSE {})
  \cup (IF "output" \in rs.has /\ rs.output = <<>> THEN { <<"/output">> } ELSE {})
  \cup { <<"/domains", i - 1>> : i \in { j \in 1..Len(rs.domains) : rs.domains[j] = <<>> } }
  \cup { <<"/extra", i - 1>> : i \in { j \in 1..Len(rs.extra) : rs.extra[j] = <<>> } }
  \cup (IF "claude" \in rs.has /\ rs.claude.output = <<>> THEN { <<"/claude/output">> } ELSE {})

\* C13: a compose of a ruleset file that breaks the schema fails with one
\* schema error whose message names every violated field once, and changes
\* no file.
C13_AllViolationsListed ==
  (isCompose /\ pre.ruleset.exists /\ violations(pre.ruleset) # {})
    => /\ last.err = "Invalid ruleset schema"
       /\ \A v \in violations(pre.ruleset) :
            Cardinality({ i \in 1..Len(last.message) : last.message[i] = <<v, TooShort>> }) = 1
       /\ Len(last.message) = 2 * Cardinality(violations(pre.ruleset)) - 1
       /\ files = pre.files /\ dirs = pre.dirs /\ cacheDirs = pre.cache

C13_Witness ==
  /\ isCompose /\ ~last.dry /\ last.err = "Invalid ruleset schema"
  /\ { <<"/source">>, <<"/output">> } \subseteq violations(pre.ruleset)
  /\ Len(last.message) > 2
  /\ ~existsSync(state, ProjectRoot \o DEFAULT_OUTPUT)

\* the ruleset of the last run with its defaults, its output and its companion
rulesetOfRun == readProjectRuleset(pre, RulesetPath).ruleset

outputOfRun == resolveFrom(ProjectRoot, rulesetOfRun.output)

companionOfRun == resolveFrom(ProjectRoot, rulesetOfRun.claude.output)

\* C17: after a successful compose that is no dry run the companion file is
\* a product of the run exactly when the companion is not disabled and its
\* path is not the output's: then it holds "@", the output's path relative to
\* it and a newline, and both files are reported; else the file at its path
\* is as the run found it, and with equal paths that file is the output,
\* reported once.
C17_Companion ==
  (isCompose /\ last.err = "" /\ ~last.dry)
    => IF rulesetOfRun.claude.enabled /\ companionOfRun # outputOfRun
       THEN /\ isFile(state, companionOfRun)
            /\ readFileSync(state, companionOfRun)
                 = << <<"@">> \o pathRelative(dirname(companionOfRun), outputOfRun), NL >>
            /\ last.composed = << pathRelative(ProjectRoot, outputOfRun),
                                  pathRelative(ProjectRoot, companionOfRun) >>
       ELSE /\ last.composed = << pathRelative(ProjectRoot, outputOfRun) >>
            /\ readFileSync(state, outputOfRun) = last.output
            /\ companionOfRun # outputOfRun
                 => /\ isFile(state, companionOfRun) = isFile(pre, companionOfRun)
                    /\ isFile(state, companionOfRun)
                         => readFileSync(state, companionOfRun) = readFileSync(pre, companionOfRun)

C17_Witness ==
  /\ last.cmd = "compose" /\ last.err = "" /\ ~last.dry
  /\ rulesetOfRun.claude.enabled /\ rulesetOfRun.output = OutputInGlobal
  /\ ~isFile(pre, companionOfRun)
  /\ readFileSync(state, companionOfRun)
       = << <<"@", "rs", "rules", "global", "z.md">>, NL >>

\* the output at the companion's path: one file, reported once
C17_SamePath ==
  /\ last.cmd = "compose" /\ last.err = "" /\ ~last.dry
  /\ companionOfRun = outputOfRun
  /\ last.composed = <<DEFAULT_CLAUDE_OUTPUT>>
  /\ readFileSync(state, companionOfRun) = last.output

\* a disabled companion: no file at its path
C17_Disabled ==
  /\ last.cmd = "compose" /\ last.err = "" /\ ~last.dry
  /\ ~rulesetOfRun.claude.enabled /\ ~isFile(state, companionOfRun)

\* the global directory of the local source of the last run
globalRootOfRun ==
  pathJoin(resolveLocalRulesRoot(pre, rulesetDirNow, pre.ruleset.source).rulesRoot, "global")

\* the files of the global directory in the rule list of the last run, in its order
collectedOfRun == SelectSeq(last.rules, LAMBDA r : IsPrefix(globalRootOfRun, r))

\* ordinal comparison of two files by their path relative to a directory
ordinalCompare(rootDir, a, b) ==
  lexCompare(pathUnits(pathRelative(rootDir, a)), pathUnits(pathRelative(rootDir, b)))

\* the run collected exactly the regular .md files under global/, each once
collectedExactly ==
  /\ Range(collectedOfRun) = markdownUnder(pre, globalRootOfRun)
  /\ Len(collectedOfRun) = Cardinality(markdownUnder(pre, globalRootOfRun))

\* C15: the files a successful compose collects from global/ are exactly the
\* regular files under it, at any depth, with the extension .md in any letter
\* case, each once, ascending by their relative path compared code unit by
\* code unit; a missing root or one that is no directory fails the run.
C15_CollectSortedOrdinal ==
  /\ (isCompose /\ last.err = "" /\ pre.ruleset.source.kind = "local"
       /\ ~("global" \in pre.ruleset.has /\ ~pre.ruleset.global))
       => /\ collectedExactly
          /\ \A i, j \in 1..Len(collectedOfRun) :
               i < j => ordinalCompare(globalRootOfRun, collectedOfRun[i], collectedOfRun[j]) < 0
  /\ (isCompose /\ pre.ruleset.exists /\ validateRulesetSchema(pre.ruleset) = <<>>
       /\ pre.ruleset.source.kind = "local"
       /\ ~("global" \in pre.ruleset.has /\ ~pre.ruleset.global)
       /\ ~isDirectory(pre, globalRootOfRun))
       => last.err # ""

\* the part of C15 that holds: the set collected, and the failure without a root
C15_CollectExactly ==
  /\ (isCompose /\ last.err = "" /\ pre.ruleset.source.kind = "local"
       /\ ~("global" \in pre.ruleset.has /\ ~pre.ruleset.global))
       => collectedExactly
  /\ (isCompose /\ pre.ruleset.exists /\ validateRulesetSchema(pre.ruleset) = <<>>
       /\ pre.ruleset.source.kind = "local"
       /\ ~("global" \in pre.ruleset.has /\ ~pre.ruleset.global)
       /\ ~isDirectory(pre, globalRootOfRun))
       => last.err # ""

(***************************************************************************)
(* Runs in a project whose subdirectory nested holds a ruleset file of its *)
(* own, with and without --ruleset.                                        *)
(***************************************************************************)
NestedDir == dirname(NestedRulesetPath)

RootRulesets ==
  { NoRuleset,
    BaseRuleset(LocalSource(<<"rs">>), <<>>, <<>>, <<"absent">>),
    BaseRuleset(LocalSource(<<"rs">>), << <<"node">> >>, << <<"local.md">> >>, <<"out", "A.md">>),
    BaseRuleset(LocalSource(<<"nosrc">>), <<>>, <<>>, <<"absent">>),
    BaseRuleset(LocalSource(<<"rs", "rules">>), << <<"node">> >>, <<>>, <<"absent">>),
    BaseRuleset(LocalSource(<<"local.md">>), <<>>, <<>>, <<"absent">>),
    BaseRuleset(LocalSource(<<"f", "rules">>), <<>>, <<>>, <<"absent">>) }

\* the values of --ruleset: not given, the nested ruleset, a file that is not there
SpecificRulesets == { <<>>, <<"nested", "agent-ruleset.json">>, <<"gone.json">> }

RootInit ==
  /\ \E withOutput \in BOOLEAN : files = InitialFiles(withOutput)
  /\ dirs = InitialDirs \cup ancestors(NestedDir)
  /\ rulesetFile \in RootRulesets
  /\ cacheDirs = NoCache
  /\ remote = NoRemote
  /\ workspace = NoWorkspace
  /\ procs = NoProcs
  /\ pre = state
  /\ last = NoLast
  /\ first = NoFirst
  /\ runs = 0

ComposeAt ==
  \E specific \in SpecificRulesets, dry \in BOOLEAN, ord \in 0..MaxOrder :
    RunMain("compose", specific, dry, FALSE, ord, "none")

ApplyRulesAt ==
  \E specific \in SpecificRulesets, dry \in BOOLEAN :
    RunMain("apply-rules", specific, dry, TRUE, 0, "none")

EditRulesAt ==
  \E specific \in SpecificRulesets : RunMain("edit-rules", specific, FALSE, FALSE, 0, "none")

InitAt == \E args \in InitArgs : RunInit(args, 0)

RootNext == ComposeAt \/ ApplyRulesAt \/ EditRulesAt \/ InitAt

RootSpec == RootInit /\ [][RootNext]_vars

isCommand == last.cmd \in {"compose", "apply-rules", "edit-rules"}

\* the files of the subdirectory nested are those the run started from
nestedUntouched ==
  \A f \in (DOMAIN files) \cup (DOMAIN pre.files) :
    IsPrefix(NestedDir, f) => f \in DOMAIN files /\ f \in DOMAIN pre.files /\ files[f] = pre.files[f]

\* C14: compose, edit-rules and apply-rules without --ruleset use the ruleset
\* file of the root directory alone: they write nothing in the subdirectory
\* that holds another ruleset file, and without a ruleset file in the root
\* they fail with "Missing ruleset file" and change nothing; with --ruleset
\* the named ruleset file is the one composed.
C14_RootRulesetOnly ==
  isCommand
    => /\ last.specific = <<>> => nestedUntouched
       /\ (last.specific = <<>> /\ ~pre.ruleset.exists)
            => /\ last.err = "Missing ruleset file"
               /\ files = pre.files /\ dirs = pre.dirs /\ cacheDirs = pre.cache
       /\ (last.specific = <<>> /\ last.err = "" /\ last.cmd # "edit-rules")
            => last.outputPath = resolveFrom(ProjectRoot,
                                   readProjectRuleset(pre, RulesetPath).ruleset.output)
       /\ (last.specific = <<"nested", "agent-ruleset.json">> /\ last.cmd # "edit-rules")
            => /\ last.err = ""
               /\ last.outputPath = NestedDir \o DEFAULT_OUTPUT
       /\ last.specific = <<"gone.json">> => last.err = "Missing file" /\ files = pre.files

C14_Witness ==
  /\ last.cmd = "compose" /\ ~last.dry /\ last.specific = <<>>
  /\ ~pre.ruleset.exists /\ pre.nested.exists
  /\ last.err = "Missing ruleset file"
  /\ (NestedDir \o DEFAULT_OUTPUT) \notin DOMAIN files

\* with --ruleset the ruleset file of the subdirectory is composed
C14_NestedComposed ==
  /\ last.cmd = "compose" /\ ~last.dry /\ last.err = ""
  /\ last.specific = <<"nested", "agent-ruleset.json">>
  /\ (NestedDir \o DEFAULT_OUTPUT) \in DOMAIN files
  /\ ~pre.ruleset.exists

(***************************************************************************)
(* Runs against a remote.  The remote serves three commits; its branch     *)
(* main follows HEAD, which moves between the first two commits.           *)
(***************************************************************************)
Commit(d) == <<"c", "0", "0", "0", "0", "0", "0", d>>

V120 == <<"v", "1", ".", "2", ".", "0">>

PreRelease == <<"2", ".", "0", ".", "0", "-", "r", "c">>

Unserved == <<"d", "e", "a", "d", "b", "e", "e">>

Unknown == <<"n", "o", "p", "e">>

\* an object name of a repository in the SHA-256 format: longer than 40 characters
LongHash == [i \in 1..41 |-> "a"]

Remote(tags, head) ==
  [tags |-> tags, branches |-> <<[name |-> Main, hash |-> head]>>, head |-> head,
   commits |-> {Commit("1"), Commit("2"), Commit("3"), LongHash}]

GitRemotes ==
  { Remote(t, Commit("1")) :
      t \in { <<>>,
              <<[hash |-> Commit("3"), tag |-> PreRelease]>>,
              <<[hash |-> Commit("1"), tag |-> V120]>> } }
  \cup { Remote(<<>>, LongHash) }

GitRulesets ==
  { Ruleset(GithubSource(ref), "absent", << <<"node">> >>, <<>>, <<"absent">>, "absent") :
      ref \in { <<>>, Main, V120, Commit("3"), Unserved, Unknown } }
  \cup { Ruleset(GithubSource(Main), "absent", <<>>, << <<"local.md">> >>, <<"absent">>, "absent"),
         Ruleset(LocalSource(<<"rs">>), "absent", <<>>, << <<"local.md">> >>, <<"absent">>,
                 "absent") }

\* a clearCache that removes the directories no checkout was completed in
clearCacheIncomplete(st) ==
  [st EXCEPT !.cache = [seg \in { x \in DOMAIN @ : @[x].complete } |-> @[seg]]]

\* clearCache
clearCache(st) == [st EXCEPT !.cache = NoCache]

\* main with --clear-cache: --version and --help return before the cache is
\* cleared; [cmd, st], cmd the branch main returned from
mainClearCache(st, args) ==
  IF args.version THEN [cmd |-> "version", st |-> st]
  ELSE IF args.help THEN [cmd |-> "help", st |-> st]
  ELSE [cmd |-> "clear-cache", st |-> clearCache(st)]

\* the checkout of a branch the remote had when it was cloned and has no more
StaleCache == (Unknown :> [complete |-> TRUE, commit |-> Commit("3"), by |-> 0])

GitInit ==
  /\ files = InitialFiles(FALSE)
  /\ dirs = InitialDirs
  /\ rulesetFile \in GitRulesets
  /\ cacheDirs \in {NoCache, StaleCache}
  /\ remote \in GitRemotes
  /\ workspace = NoWorkspace
  /\ procs = NoProcs
  /\ pre = state
  /\ last = NoLast
  /\ first = NoFirst
  /\ runs = 0

\* fail is a git command of this run that fails for a reason outside the program
ComposeRemote ==
  \E dry \in BOOLEAN, refresh \in BOOLEAN, fail \in GitCommands \cup {"none"} :
    RunCompose("compose", dry, refresh, 0, fail)

\* main: a run with --clear-cache
RunClearCache(version, help) ==
  /\ runs < MaxRuns
  /\ \E m \in {mainClearCache(state, [version |-> version, help |-> help])} :
       /\ setState(m.st)
       /\ last' = [NoLast EXCEPT !.cmd = m.cmd, !.remoteBefore = <<remote>>]
  /\ pre' = state
  /\ runs' = runs + 1
  /\ UNCHANGED <<remote, first>>

\* main: --clear-cache
ClearCache == RunClearCache(FALSE, FALSE)

\* somebody pushes to the remote: HEAD and main move to another commit
MoveHead ==
  /\ \E h \in {Commit("1"), Commit("2")} \ {remote.head} :
       remote' = [remote EXCEPT !.head = h, !.branches = <<[name |-> Main, hash |-> h]>>]
  /\ last' = [NoLast EXCEPT !.cmd = "remote moved"]
  /\ pre' = state
  /\ UNCHANGED <<files, dirs, rulesetFile, cacheDirs, workspace, procs, first, runs>>

GitNext == ComposeRemote \/ ClearCache \/ MoveHead

GitSpec == GitInit /\ [][GitNext]_vars

sourceRef == parseGithubSource(pre.ruleset.source).ref

isRemoteCompose == isCompose /\ pre.ruleset.source.kind = "github"

\* C6: every cache directory that exists holds a complete checkout; no run
\* leaves a partly populated directory behind.
C6_CacheEntriesComplete ==
  \A seg \in DOMAIN cacheDirs : cacheDirs[seg].complete

\* C9: a compose of ref latest against a remote without a valid version tag
\* reads the commit the remote HEAD points to during the run and keeps it in
\* the cache under that commit's hash.
C9_HeadFallbackUsesHead ==
  (isRemoteCompose /\ last.err = "" /\ sourceRef = Latest /\ candidatesOf(remote.tags) = <<>>)
    => /\ remote.head \in DOMAIN cacheDirs
       /\ cacheDirs[remote.head].commit = remote.head
       /\ last.read # <<>>
       /\ \A i \in 1..Len(last.read) :
            \E f \in DOMAIN checkoutFiles(remote.head) :
              last.read[i] = checkoutFiles(remote.head)[f]

C9_Witness ==
  /\ isRemoteCompose /\ last.err = "" /\ sourceRef = Latest
  /\ candidatesOf(remote.tags) = <<>>
  /\ ~last.refresh
  /\ remote.head = Commit("2")
  /\ Commit("1") \in DOMAIN pre.cache
  /\ cacheDirs[Commit("2")].commit = Commit("2")

\* C10: a compose whose ref is 7 to 40 hexadecimal characters, names no branch
\* and no tag and is a commit the remote serves succeeds when no git command
\* of the run fails, and leaves the complete checkout of that commit in the
\* cache directory of that ref.
C10_HashRefResolves ==
  (/\ isRemoteCompose /\ last.fail = "none"
   /\ looksLikeCommitHash(sourceRef)
   /\ resolveRefHash(remote, sourceRef) = <<>>
   /\ sourceRef \in remote.commits)
    => /\ last.err = ""
       /\ sourceRef \in DOMAIN cacheDirs
       /\ cacheDirs[sourceRef].complete
       /\ cacheDirs[sourceRef].commit = sourceRef

\* C11: a compose whose ref is not latest, names no branch and no tag of the
\* remote and does not look like a commit hash fails in the resolution of the
\* ref, and leaves the cache and the files as they were, with --refresh too.
C11_UnknownRefFailsEarly ==
  (/\ isRemoteCompose /\ sourceRef # Latest
   /\ resolveRefHash(remote, sourceRef) = <<>>
   /\ ~looksLikeCommitHash(sourceRef))
    => /\ last.err \in {"Unable to resolve ref", "git ls-remote failed"}
       /\ last.fail = "none" => last.err = "Unable to resolve ref"
       /\ Range(last.git) = {"ls-remote"}
       /\ cacheDirs = pre.cache
       /\ files = pre.files /\ dirs = pre.dirs

C11_Witness ==
  /\ isRemoteCompose /\ sourceRef = Unknown /\ last.refresh /\ ~last.dry
  /\ last.fail = "none"
  /\ last.err = "Unable to resolve ref"
  /\ Unknown \in DOMAIN pre.cache
  /\ Unknown \in DOMAIN cacheDirs

\* the git commands of the last run behind the ls-remote of the resolution
stepsOfRun == IF last.git = <<>> THEN <<>> ELSE Tail(last.git)

FetchSteps == <<"clone", "init", "remote add", "fetch", "checkout">>

\* what the last run resolved the ref to
resolvedOfRun == resolveRef(remote, sourceRef)

\* the cache directory of the last run was absent when the run looked for it
cacheDirAbsent ==
  \/ last.refresh
  \/ cacheSegment(resolvedOfRun.ref, resolvedOfRun.hash) \notin DOMAIN pre.cache

cloneFailed == last.fail = "clone" \/ resolveRefHash(remote, resolvedOfRun.ref) = <<>>

\* C12: a compose that resolved its ref and found no cache directory runs the
\* clone first; init, remote add, fetch and checkout follow in that order
\* only after a failed clone, each only after the one before succeeded; a
\* failed clone with neither a hash-like resolved hash nor a hash-like ref
\* ends the run with the clone's error and no further git command.
C12_CloneThenFetch ==
  (isRemoteCompose /\ last.err \notin {"git ls-remote failed", "Unable to resolve ref"})
    => IF ~cacheDirAbsent THEN stepsOfRun = <<>>
       ELSE /\ stepsOfRun # <<>> /\ stepsOfRun[1] = "clone"
            /\ IsPrefix(stepsOfRun, FetchSteps)
            /\ Len(stepsOfRun) > 1 => cloneFailed
            /\ ~cloneFailed => last.err = ""
            /\ (last.fail \notin {"none", "clone"}) => Last(stepsOfRun) = last.fail
            /\ (last.fail \notin {"none", "clone"}) => last.err # ""
            /\ (/\ cloneFailed
                /\ ~looksLikeCommitHash(resolvedOfRun.hash)
                /\ ~looksLikeCommitHash(resolvedOfRun.ref))
                 => stepsOfRun = <<"clone">> /\ last.err = "git clone failed"
            /\ (cloneFailed /\ last.fail \in {"none", "clone"}
                /\ (looksLikeCommitHash(resolvedOfRun.hash)
                    \/ looksLikeCommitHash(resolvedOfRun.ref)))
                 => Len(stepsOfRun) >= 4

C12_Witness ==
  /\ isRemoteCompose /\ last.err = "" /\ last.fail = "clone"
  /\ sourceRef = Main
  /\ stepsOfRun = FetchSteps

\* a failed clone of a branch whose hash does not look like a commit hash
C12_CloneErrorPropagated ==
  /\ isRemoteCompose /\ sourceRef = Main /\ remote.head = LongHash
  /\ last.fail = "clone" /\ last.err = "git clone failed" /\ stepsOfRun = <<"clone">>

\* the description of a fragment of the last run: github:o/r@ref/<path in the
\* repository> for a file of the checkout of a GitHub source, else the path
\* relative to the directory of the ruleset file
describe(r) ==
  IF pre.ruleset.source.kind = "github" /\ IsPrefix(CacheDir, r)
  THEN <<"Source:", "github:", "o", "r", "@">> \o resolvedOfRun.ref \o <<"/">>
         \o SubSeq(r, Len(CacheDir) + 1, Len(r))
  ELSE <<"Source:">> \o pathRelative(ProjectRoot, r)

\* the section of the i-th fragment: the description, a blank line, the body
sectionOfRun(i) ==
  <<describe(last.rules[i]), NL, NL>> \o normalizeTrailingWhitespace(last.read[i])

\* C16: in the output of a successful compose every fragment is a section
\* "Source: <description>", a blank line and the body; the description is
\* github:owner/repo@ref/<path from the repository root> for a file of the
\* rules root of a GitHub source, and the path relative to the directory of
\* the ruleset file for every other fragment.
C16_SourceLines ==
  (isCompose /\ last.err = "")
    => last.output =
         <<LintHeader, NL>> \o TOOL_RULES
           \o Flatten([i \in 1..Len(last.rules) |-> <<NL, NL>> \o sectionOfRun(i)])
           \o <<NL>>

C16_Witness ==
  /\ isRemoteCompose /\ last.err = "" /\ ~last.dry
  /\ \E i \in 1..Len(last.rules) : IsPrefix(CacheDir, last.rules[i])
  /\ \E i \in 1..Len(last.rules) : last.rules[i] = ProjectRoot \o <<"local.md">>
  /\ isFile(state, ProjectRoot \o DEFAULT_OUTPUT)
  /\ readFileSync(state, ProjectRoot \o DEFAULT_OUTPUT) = last.output

\* a local source: every fragment is described by its relative path
C16_LocalWitness ==
  /\ isCompose /\ last.err = "" /\ pre.ruleset.source.kind = "local"
  /\ Len(last.rules) >= 2

(***************************************************************************)
(* Runs of ref latest against a remote with up to MaxTags tags.            *)
(***************************************************************************)
TaggedCommits ==
  { [tag |-> V120, hash |-> Commit("1")],
    [tag |-> <<"1", ".", "2">>, hash |-> Commit("2")],
    [tag |-> <<"1", ".", "1", "0", ".", "0">>, hash |-> Commit("3")],
    [tag |-> <<"1", ".", "1", "0">>, hash |-> Commit("3")],
    [tag |-> PreRelease, hash |-> Commit("4")],
    [tag |-> <<"v", ".", "5">>, hash |-> Commit("5")],
    [tag |-> <<"1", ".", "2", ".", "3", ".", "4">>, hash |-> Commit("6")],
    [tag |-> <<"v", "2">>, hash |-> Commit("7")] }

\* what `git ls-remote --tags --refs` may list: distinct tags, in some order
Listings ==
  UNION { { l \in [1..n -> TaggedCommits] : \A i, j \in 1..n : i # j => l[i] # l[j] } :
          n \in 0..MaxTags }

TagInit ==
  /\ files = InitialFiles(FALSE)
  /\ dirs = InitialDirs
  /\ rulesetFile = Ruleset(GithubSource(<<>>), "absent", <<>>, <<>>, <<"absent">>, "absent")
  /\ cacheDirs = NoCache
  /\ \E l \in Listings :
       remote = [tags |-> l, branches |-> <<[name |-> Main, hash |-> Commit("0")]>>,
                 head |-> Commit("0"),
                 commits |-> {Commit("0")} \cup { t.hash : t \in TaggedCommits }]
  /\ workspace = NoWorkspace
  /\ procs = NoProcs
  /\ pre = state
  /\ last = NoLast
  /\ first = NoFirst
  /\ runs = 0

ComposeLatest == RunCompose("compose", FALSE, FALSE, 0, "none")

TagNext == ComposeLatest

TagSpec == TagInit /\ [][TagNext]_vars

\* the version a tag stands for: its numbers with 0 for a missing third one
versionOf(tag) ==
  LET n == parseSemver(tag).numbers IN [i \in 1..3 |-> IF i <= Len(n) THEN n[i] ELSE 0]

accepted == { i \in 1..Len(remote.tags) : parseSemver(remote.tags[i].tag).ok }

maximal ==
  { i \in accepted :
      \A j \in accepted :
        lexCompare(versionOf(remote.tags[j].tag), versionOf(remote.tags[i].tag)) <= 0 }

\* the listing in every order
reorderings ==
  LET n == Len(remote.tags) IN
  { [i \in 1..n |-> remote.tags[f[i]]] : f \in { g \in [1..n -> 1..n] : Range(g) = 1..n } }

composedLatest == isRemoteCompose /\ sourceRef = Latest /\ last.err = "" /\ accepted # {}

\* the commit checked out in the cache directory of the resolved ref
commitUsed == cacheDirs[sanitizeCacheSegment(last.resolvedRef)].commit

\* C7: a compose of ref latest resolves to a greatest version tag of the
\* listing, reads the commit listed for that tag, and reads that same commit
\* for every order in which the remote lists the tags.
C7_LatestOrderIndependent ==
  composedLatest
    => /\ \E i \in maximal : /\ remote.tags[i].tag = last.resolvedRef
                             /\ remote.tags[i].hash = commitUsed
       /\ \A l \in reorderings : resolveLatestTag(l).hash = commitUsed

\* C7 (amended): among the tags parseSemver accepts, the compose resolves to
\* the greatest; of several equally great ones (1.2 and 1.2.0) to the one
\* listed last; it reads the commit listed for that tag; and the commit is the
\* same for every order of the listing when the greatest tags list one commit.
C7_LatestIsLastMaximum ==
  composedLatest
    => /\ \E i \in maximal : /\ remote.tags[i].tag = last.resolvedRef
                             /\ remote.tags[i].hash = commitUsed
                             /\ \A j \in maximal : j <= i
       /\ (\A i, j \in maximal : remote.tags[i].hash = remote.tags[j].hash)
            => \A l \in reorderings : resolveLatestTag(l).hash = commitUsed

C7_Witness ==
  /\ composedLatest
  /\ Len(remote.tags) = 3
  /\ remote.tags[1].tag = <<"1", ".", "1", "0", ".", "0">>
  /\ remote.tags[2].tag = V120
  /\ remote.tags[3].tag = <<"1", ".", "1", "0">>
  /\ last.resolvedRef = <<"1", ".", "1", "0">>
  /\ commitUsed = Commit("3")

isNumber(part) == part # <<>> /\ \A i \in 1..Len(part) : part[i] \in Digits

\* a version tag: an optional v, then 2 or 3 numbers separated by dots
isVersionTag(tag) ==
  LET parts == split(IF tag # <<>> /\ Head(tag) = "v" THEN Tail(tag) ELSE tag, ".") IN
  Len(parts) \in {2, 3} /\ \A i \in 1..Len(parts) : isNumber(parts[i])

\* C8: a compose of ref latest never resolves to a tag that is not a version
\* tag: one with more than 3 components, or with a component that is empty
\* or not a number.
C8_OnlyVersionTagsChosen ==
  (isRemoteCompose /\ sourceRef = Latest /\ last.err = "")
    => (last.resolvedRef = HeadRef \/ isVersionTag(last.resolvedRef))

(***************************************************************************)
(* apply-rules against a remote.  The workspace is absent, ahead of the    *)
(* remote by one commit, ahead with uncommitted changes, or detached.      *)
(***************************************************************************)
ApplyRulesets ==
  { Ruleset(GithubSource(ref), "absent", << <<"node">> >>, <<>>, <<"absent">>, "absent") :
      ref \in { <<>>, Main, V120, Unknown } }
  \cup { NoRuleset }

ApplyRemotes ==
  { Remote(<<>>, Commit("1")), Remote(<<[hash |-> Commit("1"), tag |-> V120]>>, Commit("1")) }

Workspaces ==
  { NoWorkspace,
    [exists |-> TRUE, dirty |-> FALSE, detached |-> FALSE, main |-> Commit("2"), head |-> Commit("2")],
    [exists |-> TRUE, dirty |-> TRUE, detached |-> FALSE, main |-> Commit("2"), head |-> Commit("2")],
    [exists |-> TRUE, dirty |-> FALSE, detached |-> TRUE, main |-> Commit("2"), head |-> Commit("1")] }

ApplyInit ==
  /\ files = InitialFiles(FALSE)
  /\ dirs = InitialDirs
  /\ rulesetFile \in ApplyRulesets
  /\ cacheDirs = NoCache
  /\ remote \in ApplyRemotes
  /\ workspace \in Workspaces
  /\ procs = NoProcs
  /\ pre = state
  /\ last = NoLast
  /\ first = NoFirst
  /\ runs = 0

\* fail is a git command of the workspace that fails for a reason outside the program
ApplyRules ==
  \E dry \in BOOLEAN, fail \in WorkspaceCommands \cup {"none"} :
    RunCompose("apply-rules", dry, TRUE, 0, fail)

ComposeCached == RunCompose("compose", FALSE, FALSE, 0, "none")

\* the user edits a rule in the workspace and does not commit
EditWorkspace ==
  /\ workspace.exists /\ ~workspace.dirty
  /\ workspace' = [workspace EXCEPT !.dirty = TRUE]
  /\ last' = [NoLast EXCEPT !.cmd = "workspace edited"]
  /\ pre' = state
  /\ UNCHANGED <<files, dirs, rulesetFile, cacheDirs, remote, procs, first, runs>>

\* main: --clear-cache, alone or with --version or --help
ClearCacheWith == \E version \in BOOLEAN, help \in BOOLEAN : RunClearCache(version, help)

ApplyNext == ApplyRules \/ ComposeCached \/ EditWorkspace \/ ClearCacheWith

ApplySpec == ApplyInit /\ [][ApplyNext]_vars

isApplyRules == last.cmd = "apply-rules" /\ pre.ruleset.source.kind = "github"

\* git push ran in the workspace and succeeded
pushedOfRun == "push" \in Range(last.applied) /\ last.fail # "push"

\* the ref of the run resolves to the commit of the remote's branch
followsBranch ==
  sourceRef = Main \/ (sourceRef = Latest /\ candidatesOf(remote.tags) = <<>>)

\* C18: apply-rules for a GitHub source pushes the workspace before it
\* refreshes the cache and writes the output: the push happens only from a
\* workspace without uncommitted changes and on a branch, the refreshed cache
\* and the rules read hold the commit that was pushed, and a run that does
\* not push (dirty or detached workspace, or a failing git command) fails
\* and leaves the remote, the cache and the files as they were.
C18_PushBeforeRefresh ==
  isApplyRules
    => /\ pushedOfRun
            => /\ workspace.exists /\ ~workspace.dirty /\ ~workspace.detached
               /\ hashOfBranch(remote, Main) = workspace.main
       /\ (workspace.exists /\ (workspace.dirty \/ workspace.detached)) => ~pushedOfRun
       /\ ~pushedOfRun
            => /\ last.err # ""
               /\ remote = last.remoteBefore[1]
               /\ cacheDirs = pre.cache
               /\ files = pre.files
               /\ last.git = <<>>
       /\ (pushedOfRun /\ last.err = "" /\ followsBranch)
            => /\ \E seg \in DOMAIN cacheDirs :
                    cacheDirs[seg].commit = workspace.main /\ cacheDirs[seg].by = runs
               /\ last.read # <<>>
               /\ \A i \in 1..Len(last.read) :
                    \E f \in DOMAIN checkoutFiles(workspace.main) :
                      last.read[i] = checkoutFiles(workspace.main)[f]
               /\ ~last.dry => readFileSync(state, last.outputPath) = last.output

C18_Witness ==
  /\ isApplyRules /\ pushedOfRun /\ last.err = "" /\ ~last.dry
  /\ pre.workspace.main = Commit("2")
  /\ last.remoteBefore[1].head = Commit("1")
  /\ remote.head = Commit("2")
  /\ pre.cache # NoCache
  /\ last.read # <<>>
  /\ \A i \in 1..Len(last.read) :
       \E f \in DOMAIN checkoutFiles(Commit("2")) : last.read[i] = checkoutFiles(Commit("2"))[f]

\* a dirty workspace stops the run with the cache of an earlier compose in place
C18_DirtyFails ==
  /\ isApplyRules /\ pre.workspace.dirty /\ pre.cache # NoCache
  /\ last.err = "Workspace has uncommitted changes"
  /\ cacheDirs = pre.cache /\ remote = last.remoteBefore[1]

\* a ref that is a tag leaves the workspace detached, and the run stops
C18_DetachedFails ==
  /\ isApplyRules /\ ~pre.workspace.detached /\ workspace.detached
  /\ last.err = "Workspace is in detached HEAD state"
  /\ pre.cache # NoCache /\ cacheDirs = pre.cache

\* a workspace that was detached is on its branch again after the checkout of
\* a branch ref, and is pushed
C18_DetachedCheckedOut ==
  /\ isApplyRules /\ pre.workspace.detached /\ ~workspace.detached /\ pushedOfRun

C19_NoRulesetRead ==
  /\ last.cmd = "clear-cache" /\ ~pre.ruleset.exists /\ last.err = ""

\* with --version the run returns before the cache is cleared
C19_VersionFirst ==
  /\ last.cmd = "version" /\ pre.cache # NoCache /\ cacheDirs = pre.cache

(***************************************************************************)
(* init and the files that exist.                                          *)
(***************************************************************************)
isInit == last.cmd = "init"

initArgsOfRun == last.args[1]

initOutputOfRun ==
  resolveFrom(dirname(RulesetPath), buildInitRuleset(initArgsOfRun).output)

initExtraOfRun ==
  { resolveFrom(dirname(RulesetPath), initArgsOfRun.extra[i]) :
      i \in 1..Len(initArgsOfRun.extra) }

unchangedByRun ==
  /\ files = pre.files /\ dirs = pre.dirs /\ rulesetFile = pre.ruleset
  /\ cacheDirs = pre.cache /\ ~last.wrote

\* C20: init without --force leaves every file that existed with the content
\* it had: with a ruleset file it fails with "Ruleset already exists" and
\* writes nothing, with --compose and an output file it fails with "Output
\* already exists" and writes nothing, and an init that writes creates the
\* ruleset file and the extra files that were missing, and skips the extra
\* files that were there.
C20_InitKeepsExisting ==
  (isInit /\ ~initArgsOfRun.force)
    => /\ \A f \in DOMAIN pre.files : f \in DOMAIN files /\ files[f] = pre.files[f]
       /\ pre.ruleset.exists => rulesetFile = pre.ruleset
       /\ pre.ruleset.exists => (last.err = "Ruleset already exists" /\ unchangedByRun)
       /\ (~pre.ruleset.exists /\ initArgsOfRun.compose /\ existsSync(pre, initOutputOfRun))
            => (last.err = "Output already exists" /\ unchangedByRun)
       /\ last.wrote
            => /\ rulesetFile = buildInitRuleset(initArgsOfRun)
               /\ \A e \in initExtraOfRun :
                    /\ isFile(state, e)
                    /\ existsSync(pre, e)
                         => \A i \in 1..Len(last.plan) : last.plan[i].path # e
                    /\ ~existsSync(pre, e) => readFileSync(state, e) = LOCAL_RULES_TEMPLATE

C20_Witness ==
  /\ isInit /\ ~initArgsOfRun.force /\ last.wrote /\ last.err = ""
  /\ ~pre.ruleset.exists /\ rulesetFile.exists
  /\ \E e \in initExtraOfRun :
       existsSync(pre, e) /\ readFileSync(state, e) = readFileSync(pre, e)
                          /\ readFileSync(state, e) # LOCAL_RULES_TEMPLATE
  /\ \E e \in initExtraOfRun : ~existsSync(pre, e) /\ isFile(state, e)

\* an existing ruleset file stops init before the plan
C20_RulesetExists ==
  /\ isInit /\ ~initArgsOfRun.force /\ pre.ruleset.exists
  /\ last.err = "Ruleset already exists" /\ last.plan = <<>>

\* an existing output file stops an init that composes
C20_OutputExists ==
  /\ isInit /\ ~initArgsOfRun.force /\ initArgsOfRun.compose /\ ~initArgsOfRun.dryRun
  /\ last.err = "Output already exists"
  /\ ~rulesetFile.exists
  /\ readFileSync(state, initOutputOfRun) = StaleOutput

(***************************************************************************)
(* The rules root of a local source.                                       *)
(***************************************************************************)
isLocalCompose ==
  /\ isCompose /\ last.specific = <<>>
  /\ pre.ruleset.exists /\ pre.ruleset.source.kind = "local"

resolvedSourceOfRun == resolveFrom(ProjectRoot, pre.ruleset.source.path)

rulesRootOfRun ==
  IF Last(resolvedSourceOfRun) = "rules" THEN resolvedSourceOfRun
  ELSE resolvedSourceOfRun \o <<"rules">>

RulesRootErrors == {"Missing source path", "Missing directory", "Not a directory"}

\* C21: the rules root of a local source is the source path resolved against
\* the directory of the ruleset file when its last segment is rules, and
\* that path with rules appended otherwise: the rules of a run that
\* succeeds lie under it, and a run whose rules root is missing or is not a
\* directory fails and writes nothing.
C21_LocalRulesRoot ==
  isLocalCompose
    => IF isDirectory(pre, rulesRootOfRun)
       THEN /\ last.err = ""
            /\ \E i \in 1..Len(last.rules) : IsPrefix(rulesRootOfRun, last.rules[i])
            /\ \A i \in 1..Len(last.rules) :
                 IsPrefix(<<"/", "p", "rs">>, last.rules[i])
                   => IsPrefix(rulesRootOfRun, last.rules[i])
       ELSE /\ last.err \in RulesRootErrors
            /\ files = pre.files /\ dirs = pre.dirs

C21_Witness ==
  /\ isLocalCompose /\ ~last.dry /\ last.err = ""
  /\ pre.ruleset.source.path = <<"rs", "rules">>
  /\ rulesRootOfRun = RulesRoot
  /\ \E i \in 1..Len(last.rules) : last.rules[i] = GlobalA

\* the source path without rules at its end
C21_Appended ==
  /\ isLocalCompose /\ last.err = "" /\ pre.ruleset.source.path = <<"rs">>
  /\ \E i \in 1..Len(last.rules) : last.rules[i] = GlobalA

\* a file named rules is no rules root
C21_NotADirectory ==
  /\ isLocalCompose /\ last.err = "Not a directory"
  /\ pre.ruleset.source.path = <<"f", "rules">>

\* a source path that is a file has no rules root under it
C21_FileSource ==
  /\ isLocalCompose /\ last.err = "Missing directory"
  /\ pre.ruleset.source.path = <<"local.md">>

(***************************************************************************)
(* The global directory and the ruleset's global field.                    *)
(***************************************************************************)
globalOff == "global" \in pre.ruleset.has /\ ~pre.ruleset.global

isValidLocalCompose ==
  /\ isCompose /\ pre.ruleset.exists /\ pre.ruleset.source.kind = "local"
  /\ validateRulesetSchema(pre.ruleset) = <<>>

directOfRun == Range(directRulePaths(rulesetDirNow, pre.ruleset))

\* C22 as stated: the files of global/ are in the output exactly when global
\* is not false; with global false no file under global/ is in the output,
\* and a source without a global directory is composed.
C22_GlobalIffNotFalse ==
  /\ (isValidLocalCompose /\ last.err = "")
       => /\ ~globalOff => collectedExactly
          /\ globalOff => collectedOfRun = <<>>
  /\ (isValidLocalCompose /\ globalOff /\ pre.ruleset.source.path = <<"bare">>)
       => last.err = ""

\* C22, amended: with global not false the files of global/ are collected and
\* come first in the rule list, and a missing global directory fails the
\* run; with global false the global directory is not read, so a source
\* without one is composed, and a file under global/ is in the output only
\* when extra names it.
C22_GlobalDirectoryRead ==
  /\ (isValidLocalCompose /\ last.err = "" /\ ~globalOff)
       => /\ collectedExactly
          /\ collectedOfRun = SubSeq(last.rules, 1, Len(collectedOfRun))
  /\ (isValidLocalCompose /\ ~globalOff /\ ~isDirectory(pre, globalRootOfRun))
       => last.err # ""
  /\ (isValidLocalCompose /\ last.err = "" /\ globalOff)
       => Range(collectedOfRun) \subseteq directOfRun
  /\ (isValidLocalCompose /\ globalOff /\ pre.ruleset.source.path = <<"bare">>)
       => last.err = ""

C22_Witness ==
  /\ isValidLocalCompose /\ last.err = "" /\ ~last.dry /\ globalOff
  /\ collectedOfRun = <<GlobalA>>
  /\ GlobalA \in directOfRun
  /\ markdownUnder(pre, globalRootOfRun) # {GlobalA}

\* global false and a source without a global directory
C22_NoGlobalDirectory ==
  /\ isValidLocalCompose /\ last.err = "" /\ globalOff
  /\ ~isDirectory(pre, globalRootOfRun)
  /\ last.rules # <<>>

(***************************************************************************)
(* The exit code and standard error of a run.                              *)
(***************************************************************************)
isRun == last.cmd \in {"compose", "apply-rules", "edit-rules", "init"}

\* C23: a run of compose, init, edit-rules or apply-rules ends with exit
\* code 0 and nothing on standard error when no step failed, and with exit
\* code 1 after the error message and the usage text on standard error when
\* a step failed; a run that ends with 0 has done what it was asked to, a
\* run without a ruleset file to read ends with 1.
C23_ExitCode ==
  isRun
    => /\ last.exit = (IF last.err = "" THEN 0 ELSE 1)
       /\ last.exit = 0 => last.stderr = <<>>
       /\ last.exit = 1 => (last.stderr = <<last.err, usage>> /\ last.err # "")
       /\ (last.exit = 0 /\ last.cmd \in {"compose", "apply-rules"} /\ ~last.dry)
            => /\ isFile(state, last.outputPath)
               /\ readFileSync(state, last.outputPath) = last.output
       /\ (last.exit = 0 /\ last.cmd = "init" /\ ~last.dry)
            => (last.wrote /\ rulesetFile = buildInitRuleset(last.args[1]))
       /\ (last.cmd # "init" /\ last.specific = <<>> /\ ~pre.ruleset.exists)
            => last.exit = 1
       /\ (last.cmd = "init" /\ ~last.args[1].force /\ pre.ruleset.exists)
            => last.exit = 1
       /\ (last.exit = 1 /\ last.cmd # "init") => files = pre.files

C23_Witness ==
  /\ last.cmd = "edit-rules" /\ last.exit = 1
  /\ last.stderr = <<"Missing ruleset file", usage>>

\* an init that may not proceed ends with 1
C23_InitFails ==
  /\ last.cmd = "init" /\ last.exit = 1
  /\ last.stderr = <<"Confirmation required", usage>>

\* an apply-rules whose rules root is missing ends with 1
C23_ApplyRulesFails ==
  /\ last.cmd = "apply-rules" /\ last.exit = 1
  /\ last.stderr = <<"Missing source path", usage>>

\* a compose that succeeds ends with 0
C23_ComposeSucceeds ==
  /\ last.cmd = "compose" /\ ~last.dry /\ last.exit = 0 /\ last.stderr = <<>>
  /\ isFile(state, last.outputPath)

(***************************************************************************)
(* The cache directory of a run: kept without --refresh, made anew with it. *)
(***************************************************************************)
segmentOfRun == cacheSegment(resolvedOfRun.ref, resolvedOfRun.hash)

\* the run came to the cache directory: the listing worked and the ref resolved
reachedCache ==
  isRemoteCompose /\ last.fail # "ls-remote" /\ ~unresolvable(resolvedOfRun)

PopulateCommands == {"clone", "init", "remote add", "fetch", "checkout"}

\* C24: a run that finds the cache directory of its key and has no --refresh
\* runs no clone, fetch or checkout and leaves the cache as it was; a run
\* with --refresh that finds the directory deletes it before it clones, so
\* the directory it leaves, and the checkout it reads, were made by this run.
C24_CacheKeptOrRemade ==
  (reachedCache /\ segmentOfRun \in DOMAIN pre.cache)
    => /\ ~last.refresh
            => /\ Range(last.git) \cap PopulateCommands = {}
               /\ cacheDirs = pre.cache
       /\ last.refresh
            => /\ "clone" \in Range(last.git)
               /\ segmentOfRun \in DOMAIN cacheDirs => cacheDirs[segmentOfRun].by = runs
               /\ last.err = ""
                    => /\ segmentOfRun \in DOMAIN cacheDirs
                       /\ \A i \in 1..Len(last.read) :
                            IsPrefix(CacheDir, last.rules[i])
                              => last.read[i]
                                   = checkoutFiles(cacheDirs[segmentOfRun].commit)[last.rules[i]]

C24_Witness ==
  /\ reachedCache /\ last.refresh /\ last.err = ""
  /\ segmentOfRun \in DOMAIN pre.cache /\ pre.cache[segmentOfRun].by = 1
  /\ cacheDirs[segmentOfRun].by = 2
  /\ cacheDirs[segmentOfRun].commit # pre.cache[segmentOfRun].commit
  /\ last.read # <<>>

\* without --refresh the directory of an earlier run is read as it is
C24_Kept ==
  /\ reachedCache /\ ~last.refresh /\ last.err = ""
  /\ segmentOfRun \in DOMAIN pre.cache /\ pre.cache[segmentOfRun].by = 1
  /\ last.git = <<"ls-remote">> /\ last.read # <<>>

(***************************************************************************)
(* Two invocations of compose at the same time, on one ruleset: the first  *)
(* without --refresh, the second with it.  Each call of the file system    *)
(* and each git command of resolveGithubRulesRoot and composeRuleset is a  *)
(* step; the clone makes the directory first and the checkout last.        *)
(***************************************************************************)
Reader == "reader"

Refresher == "refresher"

StartProc(refresh) ==
  [pc |-> "start", refresh |-> refresh, found |-> FALSE, deleted |-> FALSE,
   resolved |-> [ref |-> <<>>, hash |-> <<>>], rules |-> <<>>, read |-> <<>>, err |-> ""]

RaceRulesets ==
  { Ruleset(GithubSource(ref), "absent", << <<"node">> >>, <<>>, <<"absent">>, "absent") :
      ref \in { <<>>, Main } }

\* the cache directory an earlier run left, for the ref and for the commit
EarlierCache ==
  (Main :> [complete |-> TRUE, commit |-> Commit("1"), by |-> 0]) @@
  (Commit("1") :> [complete |-> TRUE, commit |-> Commit("1"), by |-> 0])

RaceInit ==
  /\ files = InitialFiles(FALSE)
  /\ dirs = InitialDirs
  /\ rulesetFile \in RaceRulesets
  /\ cacheDirs \in {NoCache, EarlierCache}
  /\ remote \in { Remote(<<>>, Commit("1")), Remote(<<>>, Commit("2")) }
  /\ workspace = NoWorkspace
  /\ procs = (Reader :> StartProc(FALSE)) @@ (Refresher :> StartProc(TRUE))
  /\ pre = state
  /\ last = NoLast
  /\ first = NoFirst
  /\ runs = 0

segmentOf(p) == cacheSegment(procs[p].resolved.ref, procs[p].resolved.hash)

\* the checkout of the directory is there and finished
checkedOut(seg) == seg \in DOMAIN cacheDirs /\ cacheDirs[seg].complete

\* a step of invocation p: its record changes, the cache may
step(p, proc, cache) ==
  /\ procs' = [procs EXCEPT ![p] = proc]
  /\ cacheDirs' = cache
  /\ last' = [NoLast EXCEPT !.cmd = "step"]
  /\ UNCHANGED <<dirs, rulesetFile, remote, workspace, pre, first, runs>>

throw(p, err) == [procs[p] EXCEPT !.pc = "failed", !.err = err]

\* git ls-remote and the choice of the ref
ResolveStep(p) ==
  /\ procs[p].pc = "start"
  /\ \E resolved \in {resolveRef(remote, parseGithubSource(rulesetFile.source).ref)} :
       step(p, IF unresolvable(resolved) THEN throw(p, "Unable to resolve ref")
               ELSE [procs[p] EXCEPT !.pc = "refresh", !.resolved = resolved],
            cacheDirs)
  /\ UNCHANGED files

\* the --refresh of an invocation that is given none
refreshesAlways(proc) == TRUE

\* options.refresh
refreshes(proc) == proc.refresh

\* if (refresh && fs.existsSync(cacheDir)) fs.rmSync(cacheDir)
RefreshStep(p) ==
  /\ procs[p].pc = "refresh"
  /\ IF refreshes(procs[p]) /\ segmentOf(p) \in DOMAIN cacheDirs
     THEN step(p, [procs[p] EXCEPT !.pc = "exists", !.deleted = TRUE],
               [s \in (DOMAIN cacheDirs) \ {segmentOf(p)} |-> cacheDirs[s]])
     ELSE step(p, [procs[p] EXCEPT !.pc = "exists"], cacheDirs)
  /\ UNCHANGED files

\* if (!fs.existsSync(cacheDir))
ExistsStep(p) ==
  /\ procs[p].pc = "exists"
  /\ step(p, IF segmentOf(p) \in DOMAIN cacheDirs
              THEN [procs[p] EXCEPT !.pc = "ensure", !.found = TRUE]
              ELSE [procs[p] EXCEPT !.pc = "clone"],
           cacheDirs)
  /\ UNCHANGED files

\* git clone makes the directory; it fails on a directory that is there
CloneStep(p) ==
  /\ procs[p].pc = "clone"
  /\ IF segmentOf(p) \in DOMAIN cacheDirs
     THEN step(p, throw(p, "git clone failed"), cacheDirs)
     ELSE step(p, [procs[p] EXCEPT !.pc = "checkout"],
               (segmentOf(p) :> [complete |-> FALSE, commit |-> <<>>, by |-> 1]) @@ cacheDirs)
  /\ UNCHANGED files

\* git clone checks the files out; it fails when the directory is gone
CheckoutStep(p) ==
  /\ procs[p].pc = "checkout"
  /\ IF segmentOf(p) \notin DOMAIN cacheDirs
     THEN step(p, throw(p, "git clone failed"), cacheDirs)
     ELSE step(p, [procs[p] EXCEPT !.pc = "ensure"],
               [cacheDirs EXCEPT ![segmentOf(p)] =
                  [complete |-> TRUE, commit |-> procs[p].resolved.hash, by |-> 1]])
  /\ UNCHANGED files

\* ensureDirectoryExists(rulesRoot)
EnsureStep(p) ==
  /\ procs[p].pc = "ensure"
  /\ step(p, IF checkedOut(segmentOf(p)) THEN [procs[p] EXCEPT !.pc = "collect"]
              ELSE throw(p, "Missing directory"),
           cacheDirs)
  /\ UNCHANGED files

\* collectMarkdownFiles of the global directory and of the domain
CollectStep(p) ==
  /\ procs[p].pc = "collect"
  /\ step(p, IF checkedOut(segmentOf(p))
              THEN [procs[p] EXCEPT !.pc = "read",
                      !.rules = << CacheDir \o <<"rules", "global", "a.md">>,
                                   CacheDir \o <<"rules", "domains", "node", "t.md">> >>]
              ELSE throw(p, "Missing directory"),
           cacheDirs)
  /\ UNCHANGED files

\* fs.readFileSync of the next rule
ReadStep(p) ==
  /\ procs[p].pc = "read"
  /\ Len(procs[p].read) < Len(procs[p].rules)
  /\ step(p, IF checkedOut(segmentOf(p))
              THEN [procs[p] EXCEPT !.read =
                      Append(@, checkoutFiles(cacheDirs[segmentOf(p)].commit)
                                  [procs[p].rules[Len(procs[p].read) + 1]])]
              ELSE throw(p, "ENOENT"),
           cacheDirs)
  /\ UNCHANGED files

\* the parts, the output and fs.writeFileSync
WriteStep(p) ==
  /\ procs[p].pc = "read"
  /\ Len(procs[p].read) = Len(procs[p].rules)
  /\ \E parts \in {[i \in 1..Len(procs[p].rules) |->
                       << formatRuleSourcePath(procs[p].rules[i], CacheDir \o <<"rules">>,
                                               rulesetDirNow, rulesetFile.source,
                                               procs[p].resolved.ref), NL, NL >>
                       \o normalizeTrailingWhitespace(procs[p].read[i])]} :
       files' = writeFile(state, ProjectRoot \o DEFAULT_OUTPUT, composeOutput(parts)).files
  /\ step(p, [procs[p] EXCEPT !.pc = "done"], cacheDirs)

RaceNext ==
  \E p \in {Reader, Refresher} :
    \/ ResolveStep(p) \/ RefreshStep(p) \/ ExistsStep(p) \/ CloneStep(p) \/ CheckoutStep(p)
    \/ EnsureStep(p) \/ CollectStep(p) \/ ReadStep(p) \/ WriteStep(p)

RaceSpec == RaceInit /\ [][RaceNext]_vars

\* invocation p is past the existence test, which found the directory, and
\* has not read its last fragment
midRead(p) ==
  /\ procs[p].found
  /\ procs[p].pc \in {"ensure", "collect", "read"}
  /\ procs[p].pc = "read" => Len(procs[p].read) < Len(procs[p].rules)

\* C25: with an invocation without --refresh and one with --refresh on the
\* cache directory an earlier run left, the directory an invocation found
\* is gone or unfinished before that invocation has read its fragments only
\* when the refreshing invocation has deleted it: the invocation without
\* --refresh never deletes, an invocation that found the directory fails on
\* a missing directory or file only after the deletion, and without the
\* deletion it reads the fragments the earlier run left.
C25_OnlyRefreshDeletes ==
  procs # NoProcs
    => /\ ~procs[Reader].deleted
       /\ \A p \in {Reader, Refresher} :
            (procs[p].found /\ segmentOf(p) \in DOMAIN pre.cache)
              => /\ (midRead(p) /\ ~checkedOut(segmentOf(p))) => procs[Refresher].deleted
                 /\ procs[p].err \in {"Missing directory", "ENOENT"}
                      => procs[Refresher].deleted
                 /\ (procs[p].pc = "done" /\ ~procs[Refresher].deleted)
                      => \A i \in 1..Len(procs[p].read) :
                           procs[p].read[i] = checkoutFiles(Commit("1"))[procs[p].rules[i]]

\* the interleaving: the reader found the directory, the refresher deleted
\* it, the reader has fragments left to read
C25_Witness ==
  /\ procs # NoProcs
  /\ midRead(Reader)
  /\ procs[Reader].pc = "read" /\ Len(procs[Reader].read) = 1
  /\ procs[Refresher].deleted
  /\ segmentOf(Reader) = segmentOf(Refresher)
  /\ segmentOf(Reader) \in DOMAIN pre.cache
  /\ segmentOf(Reader) \notin DOMAIN cacheDirs

\* the reader then fails on a file that is gone
C25_ReaderFails ==
  /\ procs # NoProcs
  /\ procs[Reader].found /\ procs[Reader].err = "ENOENT" /\ procs[Refresher].deleted

\* or it writes an output with fragments of two commits
C25_TornRead ==
  /\ procs # NoProcs
  /\ procs[Reader].pc = "done" /\ procs[Reader].found
  /\ procs[Reader].read[1] = checkoutFiles(Commit("1"))[procs[Reader].rules[1]]
  /\ procs[Reader].read[2] = checkoutFiles(Commit("2"))[procs[Reader].rules[2]]

(***************************************************************************)
(* stripJsonComments.  The text of the ruleset file is a sequence of       *)
(* characters; it is written as a sequence of segments: plain text, string *)
(* literals, line comments with the newline that ends them, block          *)
(* comments.                                                               *)
(***************************************************************************)
MaxSegments == 3

ScanStart ==
  [i |-> 1, output |-> <<>>, inString |-> FALSE, stringChar |-> "", escaping |-> FALSE,
   inLineComment |-> FALSE, inBlockComment |-> FALSE]

\* a scanner for which no character escapes the next
escapesNothing(char) == FALSE

\* char === "\\"
escapes(char) == char = "\\"

\* one turn of the loop of stripJsonComments; s.i is the index of the character
scanChar(input, s, char, next) ==
  IF s.inLineComment
  THEN IF char = "\n"
       THEN [s EXCEPT !.i = @ + 1, !.inLineComment = FALSE, !.output = Append(@, char)]
       ELSE [s EXCEPT !.i = @ + 1]
  ELSE IF s.inBlockComment
  THEN IF char = "*" /\ next = "/"
       THEN [s EXCEPT !.i = @ + 2, !.inBlockComment = FALSE]
       ELSE [s EXCEPT !.i = @ + 1]
  ELSE IF s.inString
  THEN IF s.escaping
       THEN [s EXCEPT !.i = @ + 1, !.output = Append(@, char), !.escaping = FALSE]
       ELSE IF escapes(char)
       THEN [s EXCEPT !.i = @ + 1, !.output = Append(@, char), !.escaping = TRUE]
       ELSE IF char = s.stringChar
       THEN [s EXCEPT !.i = @ + 1, !.output = Append(@, char), !.inString = FALSE,
                      !.stringChar = ""]
       ELSE [s EXCEPT !.i = @ + 1, !.output = Append(@, char)]
  ELSE IF char = "/" /\ next = "/"
  THEN [s EXCEPT !.i = @ + 2, !.inLineComment = TRUE]
  ELSE IF char = "/" /\ next = "*"
  THEN [s EXCEPT !.i = @ + 2, !.inBlockComment = TRUE]
  ELSE IF char = "\"" \/ char = "'"
  THEN [s EXCEPT !.i = @ + 1, !.output = Append(@, char), !.inString = TRUE,
                 !.stringChar = char]
  ELSE [s EXCEPT !.i = @ + 1, !.output = Append(@, char)]

\* the loop over the positions lo..hi, by halves: the body runs at the
\* positions the index i comes to
RECURSIVE scanBetween(_, _, _, _)
scanBetween(input, s, lo, hi) ==
  IF lo > hi THEN s
  ELSE IF lo = hi
       THEN IF s.i # lo THEN s
            ELSE scanChar(input, s, input[lo],
                          IF lo < Len(input) THEN input[lo + 1] ELSE "undefined")
       ELSE With(scanBetween(input, s, lo, (lo + hi) \div 2),
                 LAMBDA m : scanBetween(input, m, (lo + hi) \div 2 + 1, hi))

\* while (i < input.length) { ... } return output
scanFrom(input, s) == scanBetween(input, s, s.i, Len(input)).output

stripJsonComments(input) == scanFrom(input, ScanStart)

Plain(text) == [kind |-> "plain", text |-> text]

StringLiteral(text) == [kind |-> "string", text |-> <<"\"">> \o text \o <<"\"">>]

LineComment(text) == [kind |-> "line", text |-> <<"/", "/">> \o text \o <<"\n">>]

BlockComment(text) == [kind |-> "block", text |-> <<"/", "*">> \o text \o <<"*", "/">>]

Segments ==
  { Plain(<<"{", " ">>),
    StringLiteral(<<"a">>),
    StringLiteral(<<"/", "/">>),
    StringLiteral(<<"/", "*">>),
    StringLiteral(<<"\\", "\"">>),
    StringLiteral(<<"\\", "\\">>),
    StringLiteral(<<"'">>),
    LineComment(<<"c", "\"">>),
    BlockComment(<<"\"", "\n", "/", "/">>),
    BlockComment(<<"*">>) }

SegmentLists == UNION { [1..n -> Segments] : n \in 0..MaxSegments }

RECURSIVE textOf(_)
textOf(segments) ==
  IF segments = <<>> THEN <<>> ELSE Head(segments).text \o textOf(Tail(segments))

\* the text without its comments: a line comment leaves its newline
RECURSIVE withoutComments(_)
withoutComments(segments) ==
  IF segments = <<>> THEN <<>>
  ELSE (IF Head(segments).kind = "line" THEN <<"\n">>
        ELSE IF Head(segments).kind = "block" THEN <<>>
        ELSE Head(segments).text)
       \o withoutComments(Tail(segments))

JsonInit ==
  /\ files = InitialFiles(FALSE)
  /\ dirs = InitialDirs
  /\ rulesetFile = NoRuleset
  /\ cacheDirs = NoCache
  /\ remote = NoRemote
  /\ workspace = NoWorkspace
  /\ procs = NoProcs
  /\ pre = state
  /\ last = NoLast
  /\ first = NoFirst
  /\ runs = 0

\* the user writes the text of the ruleset file
WriteRulesetText ==
  /\ runs = 0
  /\ \E segments \in SegmentLists :
       /\ files' = writeFile(state, RulesetPath, textOf(segments)).files
       /\ last' = [NoLast EXCEPT !.cmd = "ruleset written", !.args = <<segments>>]
  /\ runs' = runs + 1
  /\ UNCHANGED <<dirs, rulesetFile, cacheDirs, remote, workspace, procs, pre, first>>

\* readJsonFile: the text handed to JSON.parse
StripRulesetText ==
  /\ last.cmd = "ruleset written"
  /\ last' = [last EXCEPT !.cmd = "readJsonFile",
                          !.output = stripJsonComments(files[RulesetPath])]
  /\ UNCHANGED <<files, dirs, rulesetFile, cacheDirs, remote, workspace, procs, pre, first,
                 runs>>

JsonNext == WriteRulesetText \/ StripRulesetText

JsonSpec == JsonInit /\ [][JsonNext]_vars

segmentsOfRun == last.args[1]

hasComment(segments) ==
  \E i \in 1..Len(segments) : segments[i].kind \in {"line", "block"}

\* C26: of a text made of plain text, string literals, line comments and
\* block comments, stripJsonComments returns the text without the comments,
\* a line comment leaving the newline that ends it; the string literals are
\* returned character by character, with the // and /* and the escaped
\* quotes and backslashes in them, and a text without a comment is returned
\* as it is.
C26_StripJsonComments ==
  last.cmd = "readJsonFile"
    => /\ last.output = withoutComments(segmentsOfRun)
       /\ ~hasComment(segmentsOfRun) => last.output = files[RulesetPath]

C26_Witness ==
  /\ last.cmd = "readJsonFile"
  /\ Len(segmentsOfRun) = 3
  /\ segmentsOfRun[1] = StringLiteral(<<"\\", "\"">>)
  /\ segmentsOfRun[2] = LineComment(<<"c", "\"">>)
  /\ segmentsOfRun[3] = StringLiteral(<<"/", "*">>)
  /\ last.output = segmentsOfRun[1].text \o <<"\n">> \o segmentsOfRun[3].text

\* a text without comments, with // inside a string literal
C26_Unchanged ==
  /\ last.cmd = "readJsonFile"
  /\ segmentsOfRun = <<Plain(<<"{", " ">>), StringLiteral(<<"/", "/">>)>>
  /\ last.output = files[RulesetPath]

(***************************************************************************)
(* Runs whose ruleset names other repositories and refs.  GitHub serves    *)
(* the repository o/r with the branches main, a/b and a__b; under the      *)
(* names "." and ".." it serves none, so the listing of such a remote      *)
(* fails.  The user edits the source of the ruleset between the runs.      *)
(***************************************************************************)
Slashed == <<"a", "/", "b">>

Underscored == <<"a", "_", "_", "b">>

DotName == <<".">>

DotDotName == <<".", ".">>

\* "github:<owner>/<repo>@<ref>"
GithubRepoSource(owner, repo, ref) ==
  [kind |-> "github", path |-> <<owner, repo>>, ref |-> ref]

KeyRemote ==
  [tags |-> <<>>,
   branches |-> <<[name |-> Main, hash |-> Commit("1")],
                  [name |-> Slashed, hash |-> Commit("2")],
                  [name |-> Underscored, hash |-> Commit("3")]>>,
   head |-> Commit("1"),
   commits |-> {Commit("1"), Commit("2"), Commit("3")}]

KeySources ==
  { GithubRepoSource(<<"o">>, <<"r">>, ref) :
      ref \in {<<>>, Main, Slashed, Underscored, DotName, DotDotName, Commit("3")} }
  \cup { GithubRepoSource(DotDotName, DotDotName, Main),
         GithubRepoSource(<<"o">>, DotDotName, Main),
         GithubRepoSource(DotName, <<"r">>, Slashed) }

KeyRulesets ==
  { Ruleset(source, "absent", << <<"node">> >>, <<>>, <<"absent">>, "absent") :
      source \in KeySources }

\* the remote answers under the names of the repository only
served(source) ==
  With(parseGithubSource(source),
       LAMBDA parsed : <<parsed.owner, parsed.repo>> = DefaultRepo)

KeyInit ==
  /\ files = InitialFiles(FALSE)
  /\ dirs = InitialDirs
  /\ rulesetFile \in KeyRulesets
  /\ cacheDirs = NoCache
  /\ remote = KeyRemote
  /\ workspace = NoWorkspace
  /\ procs = NoProcs
  /\ pre = state
  /\ last = NoLast
  /\ first = NoFirst
  /\ runs = 0

\* compose; the listing of a remote that is not served fails
ComposeKeyed ==
  \E dry \in BOOLEAN, refresh \in BOOLEAN,
     fail \in (IF served(rulesetFile.source) THEN GitCommands \cup {"none"}
               ELSE {"ls-remote"}) :
    RunCompose("compose", dry, refresh, 0, fail)

\* the user gives the ruleset another source (two edits in a row are one edit)
EditSource ==
  /\ last.cmd # "ruleset edited"
  /\ rulesetFile' \in KeyRulesets \ {rulesetFile}
  /\ last' = [NoLast EXCEPT !.cmd = "ruleset edited"]
  /\ pre' = state
  /\ UNCHANGED <<files, dirs, cacheDirs, remote, workspace, procs, first, runs>>

KeyNext == ComposeKeyed \/ EditSource

KeySpec == KeyInit /\ [][KeyNext]_vars

parsedOfRun == parseGithubSource(pre.ruleset.source)

cacheDirOfRun == cacheDirOf(parsedOfRun, segmentOfRun)

\* the run looked for its cache directory, deleted it or ran a command in it
touchedCache ==
  isRemoteCompose
    /\ (reachedCache \/ cacheDirs # pre.cache
          \/ Range(last.git) \cap PopulateCommands # {})

C27_DotDotRefused ==
  /\ isRemoteCompose
  /\ parsedOfRun.owner = DotDotName
  /\ parsedOfRun.repo = DotDotName
  /\ last.err = "git ls-remote failed"
  /\ cacheDirs = pre.cache
  /\ cacheDirOf(parsedOfRun, Main) = << <<"home">>, Main >>

\* the ref "..": it is no ref of the remote and no commit hash
C27_DotDotRefUnresolved ==
  /\ isRemoteCompose
  /\ sourceRef = DotDotName
  /\ last.err = "Unable to resolve ref"
  /\ cacheDirs = pre.cache

\* the commit the ref of the run names on the remote
commitOfRun == IF resolvedOfRun.hash # <<>> THEN resolvedOfRun.hash ELSE resolvedOfRun.ref

\* C28: sources that differ in owner, repository or resolved ref have
\* different cache directories: the checkout a run without --refresh finds in
\* its cache directory was cached for the ref of this run, so on a remote
\* whose branches have not moved it is the commit this ref names.
C28_OwnCheckoutFound ==
  (reachedCache /\ ~last.refresh /\ segmentOfRun \in DOMAIN pre.cache
     /\ pre.cache[segmentOfRun].complete)
    => pre.cache[segmentOfRun].commit = commitOfRun

\* a compose of the branch a__b composes the rules of the branch a/b, cached
\* by the run before under the same directory
C28_OtherCheckoutRead ==
  /\ isRemoteCompose
  /\ last.err = ""
  /\ sourceRef = Underscored
  /\ parseGithubSource(rulesetFile.source).ref = Underscored
  /\ commitOfRun = Commit("3")
  /\ cacheDirs[segmentOfRun].commit = Commit("2")
  /\ cacheDirOfRun = cacheDirOf(parsedOfRun, cacheSegment(Slashed, Commit("2")))

\* C29: apply-rules with --dry-run changes nothing: the remote is as it was
\* before the run (nothing was pushed), the cache holds the entries it held,
\* none deleted or made again, and no file was written.
C29_DryRunChangesNothing ==
  (isApplyRules /\ last.dry)
    => /\ ~pushedOfRun
       /\ <<remote>> = last.remoteBefore
       /\ cacheDirs = pre.cache
       /\ files = pre.files

\* apply-rules --dry-run from a workspace with a commit the remote has not:
\* the commit is pushed, the cache directory of the run before is deleted and
\* cloned again, and the output file alone is left as it was
C29_DryRunPushed ==
  /\ isApplyRules /\ last.dry /\ last.err = ""
  /\ pushedOfRun
  /\ <<remote>> # last.remoteBefore
  /\ remote.head = pre.workspace.head
  /\ segmentOfRun \in DOMAIN pre.cache
  /\ pre.cache[segmentOfRun].by < runs
  /\ cacheDirs[segmentOfRun].by = runs
  /\ files = pre.files

(***************************************************************************)
(* The ruleset file of init as a text.  A text is a list of characters;    *)
(* the words of the template that hold no quote, backslash or newline (the *)
(* keys, the comments) are one element each.  init writes                  *)
(* formatInitRuleset(buildInitRuleset(args)), readProjectRuleset reads it  *)
(* back through stripJsonComments and JSON.parse.                          *)
(***************************************************************************)
DEFAULT_INIT_SOURCE == <<"github:", "owner", "/", "repo", "@", "latest">>

OutputName == <<"AGENTS.md">>

\* buildInitRuleset on option values spelled character by character; the
\* options are [source, domains, extra, output, noGlobal], an empty source or
\* output standing for an option that was not given
buildInitRulesetValues(args) ==
  [source |-> IF args.source = <<>> THEN DEFAULT_INIT_SOURCE ELSE args.source,
   output |-> IF args.output = <<>> THEN OutputName ELSE args.output,
   global |-> ~args.noGlobal,
   domains |-> args.domains,
   extra |-> args.extra]

\* `"${value}"`: the value between quotes as it is
quoteRaw(value) == <<"\"">> \o value \o <<"\"">>

\* JSON.stringify of a string: a backslash before every quote and backslash
quoteJson(value) ==
  <<"\"">>
  \o Flatten([i \in 1..Len(value) |->
       IF value[i] \in {"\"", "\\"} THEN <<"\\", value[i]>> ELSE <<value[i]>>])
  \o <<"\"">>

\* JSON.stringify of a list of strings
stringifyList(values) ==
  <<"[">>
  \o Flatten([i \in 1..Len(values) |->
       (IF i > 1 THEN <<",">> ELSE <<>>) \o quoteJson(values[i])])
  \o <<"]">>

commentLine(words) == <<" ", " ", "/", "/", " ", words, "\n">>

keyOf(name) == <<" ", " ", "\"", name, "\"", ":", " ">>

\* formatInitRuleset with the source and the output between quotes as they are
\* given and the lists through JSON.stringify
formatWith(ruleset, quoteString(_)) ==
  <<"{", "\n">>
  \o commentLine("Rules source. Use github:owner/repo@ref or a local path.")
  \o keyOf("source") \o quoteString(ruleset.source) \o <<",", "\n">>
  \o commentLine("Domain folders under rules/domains.")
  \o keyOf("domains") \o stringifyList(ruleset.domains) \o <<",", "\n">>
  \o commentLine("Additional local rule files to append.")
  \o keyOf("extra") \o stringifyList(ruleset.extra) \o <<",", "\n">>
  \o (IF ruleset.global THEN <<>>
      ELSE commentLine("Include rules/global from the source.")
           \o keyOf("global") \o <<"false", ",", "\n">>)
  \o commentLine("Output file name.")
  \o keyOf("output") \o quoteString(ruleset.output) \o <<"\n">>
  \o <<"}", "\n">>

\* a formatInitRuleset that writes the source and the output as JSON strings
formatInitRulesetEscaped(ruleset) == formatWith(ruleset, quoteJson)

\* formatInitRuleset
formatInitRuleset(ruleset) == formatWith(ruleset, quoteRaw)

(***************************************************************************)
(* JSON.parse of the texts above: objects, lists, strings and false.       *)
(* A value is [kind, val]; a parse is [ok, val, i], i the position behind  *)
(* what was read.                                                          *)
(***************************************************************************)
JsonWhitespace == {" ", "\n", "\r", "\t"}

\* the characters behind a backslash that stand for themselves
SelfEscapes == {"\"", "\\", "/"}

\* the characters behind a backslash that stand for a control character
ControlEscapes == {"b", "f", "n", "r", "t"}

controlOf(e) ==
  CASE e = "n" -> "\n" [] e = "r" -> "\r" [] e = "t" -> "\t" [] e = "f" -> "\f"
    [] e = "b" -> "\\b"

ParseFailed == [ok |-> FALSE, val |-> [kind |-> "none", val |-> <<>>], i |-> 0]

RECURSIVE skipWhitespace(_, _)
skipWhitespace(t, i) ==
  IF i <= Len(t) /\ t[i] \in JsonWhitespace THEN skipWhitespace(t, i + 1) ELSE i

\* a string literal from behind its opening quote
RECURSIVE parseString(_, _, _)
parseString(t, i, acc) ==
  IF i > Len(t) THEN ParseFailed
  ELSE IF t[i] = "\"" THEN [ok |-> TRUE, val |-> [kind |-> "string", val |-> acc], i |-> i + 1]
  ELSE IF t[i] \in {"\n", "\r", "\t"} THEN ParseFailed
  ELSE IF t[i] # "\\" THEN parseString(t, i + 1, Append(acc, t[i]))
  ELSE IF i + 1 > Len(t) THEN ParseFailed
  ELSE IF t[i + 1] \in SelfEscapes THEN parseString(t, i + 2, Append(acc, t[i + 1]))
  ELSE IF t[i + 1] \in ControlEscapes
       THEN parseString(t, i + 2, Append(acc, controlOf(t[i + 1])))
  ELSE IF t[i + 1] = "u" /\ i + 5 <= Len(t) /\ \A k \in 2..5 : t[i + k] \in HexChars
       THEN parseString(t, i + 6, acc \o <<"\\u">> \o SubSeq(t, i + 2, i + 5))
  ELSE ParseFailed

\* the strings of a list from behind its opening bracket
RECURSIVE parseList(_, _, _)
parseList(t, i, acc) ==
  With(skipWhitespace(t, i),
       LAMBDA j :
         IF j > Len(t) THEN ParseFailed
         ELSE IF t[j] = "]" /\ acc = <<>>
              THEN [ok |-> TRUE, val |-> [kind |-> "list", val |-> acc], i |-> j + 1]
         ELSE IF t[j] # "\"" THEN ParseFailed
         ELSE With(parseString(t, j + 1, <<>>),
                   LAMBDA item :
                     IF ~item.ok THEN ParseFailed
                     ELSE With(skipWhitespace(t, item.i),
                               LAMBDA k :
                                 IF k > Len(t) THEN ParseFailed
                                 ELSE IF t[k] = ","
                                      THEN IF skipWhitespace(t, k + 1) <= Len(t)
                                              /\ t[skipWhitespace(t, k + 1)] = "]"
                                           THEN ParseFailed
                                           ELSE parseList(t, k + 1, Append(acc, item.val.val))
                                 ELSE IF t[k] = "]"
                                      THEN [ok |-> TRUE,
                                            val |-> [kind |-> "list",
                                                     val |-> Append(acc, item.val.val)],
                                            i |-> k + 1]
                                 ELSE ParseFailed)))

\* a value of a member: a string, a list of strings, or false
parseMemberValue(t, i) ==
  IF i > Len(t) THEN ParseFailed
  ELSE IF t[i] = "\"" THEN parseString(t, i + 1, <<>>)
  ELSE IF t[i] = "[" THEN parseList(t, i + 1, <<>>)
  ELSE IF t[i] = "false" THEN [ok |-> TRUE, val |-> [kind |-> "false", val |-> <<>>], i |-> i + 1]
  ELSE ParseFailed

\* the members of an object from behind its opening brace or a comma
RECURSIVE parseMembers(_, _, _)
parseMembers(t, i, acc) ==
  With(skipWhitespace(t, i),
       LAMBDA j :
         IF j > Len(t) THEN ParseFailed
         ELSE IF t[j] = "}" /\ acc = <<>>
              THEN [ok |-> TRUE, val |-> [kind |-> "object", val |-> acc], i |-> j + 1]
         ELSE IF t[j] # "\"" THEN ParseFailed
         ELSE With(parseString(t, j + 1, <<>>),
                   LAMBDA key :
                     IF ~key.ok THEN ParseFailed
                     ELSE With(skipWhitespace(t, key.i),
                               LAMBDA c :
                                 IF c > Len(t) \/ t[c] # ":" THEN ParseFailed
                                 ELSE With(parseMemberValue(t, skipWhitespace(t, c + 1)),
                                           LAMBDA v :
                                             IF ~v.ok THEN ParseFailed
                                             ELSE With(skipWhitespace(t, v.i),
                                                       LAMBDA k :
                                                         IF k > Len(t) THEN ParseFailed
                                                         ELSE IF t[k] = ","
                                                              THEN parseMembers(t, k + 1,
                                                                     Append(acc, [key |-> key.val.val, value |-> v.val]))
                                                         ELSE IF t[k] = "}"
                                                              THEN [ok |-> TRUE,
                                                                    val |-> [kind |-> "object",
                                                                             val |-> Append(acc, [key |-> key.val.val, value |-> v.val])],
                                                                    i |-> k + 1]
                                                         ELSE ParseFailed)))))

\* JSON.parse of the text of a ruleset file: one object and nothing behind it
JSONparse(t) ==
  With(skipWhitespace(t, 1),
       LAMBDA j :
         IF j > Len(t) \/ t[j] # "{" THEN ParseFailed
         ELSE With(parseMembers(t, j + 1, <<>>),
                   LAMBDA obj :
                     IF obj.ok /\ skipWhitespace(t, obj.i) > Len(t) THEN obj ELSE ParseFailed))

\* object[name]: the last member of that name, or a value of kind "none"
memberOf(members, name) ==
  With(SelectSeq(members, LAMBDA m : m.key = <<name>>),
       LAMBDA hit : IF hit = <<>> THEN ParseFailed.val ELSE Last(hit).value)

\* the schema of the ruleset file on the properties init writes
schemaAccepts(members) ==
  /\ memberOf(members, "source").kind = "string"
  /\ memberOf(members, "source").val # <<>>
  /\ memberOf(members, "output").kind \in {"string", "none"}
  /\ memberOf(members, "output").kind = "string" => memberOf(members, "output").val # <<>>
  /\ memberOf(members, "domains").kind \in {"list", "none"}
  /\ memberOf(members, "extra").kind \in {"list", "none"}
  /\ memberOf(members, "global").kind \in {"false", "none"}
  /\ \A i \in 1..Len(members) :
       members[i].key \in { <<"source">>, <<"output">>, <<"domains">>, <<"extra">>, <<"global">> }

NoValues == [source |-> <<>>, output |-> <<>>, global |-> TRUE, domains |-> <<>>, extra |-> <<>>]

\* readProjectRuleset on the text of the file: [err, values]
readRulesetText(text) ==
  With(JSONparse(stripJsonComments(text)),
       LAMBDA parsed :
         IF ~parsed.ok THEN [err |-> "SyntaxError", values |-> NoValues]
         ELSE IF ~schemaAccepts(parsed.val.val)
              THEN [err |-> "Invalid ruleset schema", values |-> NoValues]
              ELSE With(parsed.val.val,
                        LAMBDA members :
                          [err |-> "",
                           values |->
                             [source |-> memberOf(members, "source").val,
                              output |-> IF memberOf(members, "output").kind = "none"
                                         THEN OutputName
                                         ELSE memberOf(members, "output").val,
                              global |-> memberOf(members, "global").kind = "none",
                              domains |-> memberOf(members, "domains").val,
                              extra |-> memberOf(members, "extra").val]]))

\* a relative path of Windows, ..\rs
BackslashPath == <<".", ".", "\\", "r", "s">>

\* a path of Windows with a drive, c:\x
DrivePath == <<"c", ":", "\\", "x">>

QuotedName == <<"a", "\"", "b">>

InitOptions ==
  [source : {<<>>, <<"r", "s">>, BackslashPath, DrivePath, QuotedName},
   output : {<<>>, <<"O", ".", "m", "d">>, <<"d", "\\", "O">>},
   domains : {<<>>, << <<"n", "o", "d", "e">> >>, << QuotedName, <<"c", "\\", "d">> >>},
   extra : {<<>>, << <<"l", ".", "m", "d">> >>},
   noGlobal : BOOLEAN]

\* init writes the ruleset file
WriteInitRuleset ==
  /\ runs = 0
  /\ \E args \in InitOptions :
       /\ files' = writeFile(state, RulesetPath,
                             formatInitRuleset(buildInitRulesetValues(args))).files
       /\ last' = [NoLast EXCEPT !.cmd = "init", !.args = <<args>>]
  /\ runs' = runs + 1
  /\ UNCHANGED <<dirs, rulesetFile, cacheDirs, remote, workspace, procs, pre, first>>

\* compose reads the ruleset file init wrote
ReadInitRuleset ==
  /\ last.cmd = "init"
  /\ \E r \in {readRulesetText(files[RulesetPath])} :
       last' = [last EXCEPT !.cmd = "readProjectRuleset", !.err = r.err,
                            !.read = <<r.values>>]
  /\ UNCHANGED <<files, dirs, rulesetFile, cacheDirs, remote, workspace, procs, pre, first,
                 runs>>

InitTextNext == WriteInitRuleset \/ ReadInitRuleset

InitTextSpec == JsonInit /\ [][InitTextNext]_vars

optionsOfRun == last.args[1]

\* C30: the ruleset file init writes is read back without an error, and
\* with the source, domains, extra, output and global value that init was
\* given (the defaults for the options that were not given).
C30_InitRoundTrip ==
  last.cmd = "readProjectRuleset"
    => /\ last.err = ""
       /\ last.read[1] = buildInitRulesetValues(optionsOfRun)

\* init --source c:\x: \x is no escape of JSON and the file cannot be parsed
C30_ParseError ==
  /\ last.cmd = "readProjectRuleset"
  /\ optionsOfRun.source = DrivePath
  /\ last.err = "SyntaxError"

\* init --source ..\rs: the file is parsed, \r read as a carriage return
C30_OtherSource ==
  /\ last.cmd = "readProjectRuleset"
  /\ optionsOfRun.source = BackslashPath
  /\ optionsOfRun.output = <<>>
  /\ last.err = ""
  /\ last.read[1].source = <<".", ".", "\r", "s">>

\* options without a quote or backslash in source and output, the lists with
\* both: the values read are the values given
C30_PlainRoundTrip ==
  /\ last.cmd = "readProjectRuleset"
  /\ optionsOfRun.source = <<"r", "s">>
  /\ optionsOfRun.output = <<"O", ".", "m", "d">>
  /\ optionsOfRun.domains = << QuotedName, <<"c", "\\", "d">> >>
  /\ optionsOfRun.noGlobal
  /\ last.err = ""
  /\ last.read[1] = buildInitRulesetValues(optionsOfRun)

====
